---------------------------- MODULE Spec2Model ----------------------------
(***************************************************************************)
(* A model of ai-skills-sync: the reference model (types.ts), the resolver *)
(* (resolver.ts), the state store (state.ts), the content fetcher          *)
(* (fetcher.ts) and the sync orchestrator (syncer.ts).                     *)
(*                                                                         *)
(* Strings that the code parses or concatenates (sources, paths, install   *)
(* names, error messages) are sequences of one-character strings, so that  *)
(* indexOf, slice and template literals are computed as the code computes  *)
(* them.  An absent optional string (path === undefined) is the empty      *)
(* sequence; the inputs never hold a present-but-empty path.  Opaque       *)
(* strings (commit SHAs, agent types, skill types) are TLA+ strings.       *)
(***************************************************************************)
EXTENDS Integers, Sequences, FiniteSets, TLC

VARIABLES
    \* ---- resolver (config.ts, resolver.ts) ----
    config,      \* the configuration document: global, projects, conditional
    resolved,    \* the last result of resolveSkills: [threw, skills]
    \* ---- sync orchestrator (syncer.ts) and its collaborators ----
    state,       \* the persisted SyncState (state.json)
    disk,        \* agent target directories: agent type -> install name -> content
    cache,       \* the cache directory: set of [owner, repo, sha, path]
    gitignore,   \* the set of agent types whose skills path .gitignore covers
    pc,          \* position of the running syncSkills call
    params,      \* the SyncParams of the running call
    idx,         \* index of the resolved skill the per-skill loop is at
    newSkills,   \* the call's newSkills record
    result,      \* the call's SyncResult
    io,          \* what the running call did: fetches, clones, copies, removals, reads
    clock,       \* the wall clock read by new Date()
    calls,       \* the number of syncSkills calls made
    prev,        \* the SyncResult of the previous call
    lastType,    \* install name -> its type in the latest resolved list that held it
    \* ---- functions applied on their own ----
    dedup,       \* deduplicateSkills: the list given, its result, the names resolved
    cleaned,     \* cleanCache: the cache directories before it, and what it returned
    clone,       \* cloneAndExtract: its position, the temporary directory, pendingCleanups
    manifest     \* rewriteSkillName: the SKILL.md given, the name, the file written

resolverVars == <<config, resolved>>
syncVars ==
    <<state, disk, cache, gitignore, pc, params, idx, newSkills, result, io, clock, calls, prev,
      lastType>>
pureVars == <<dedup, cleaned, clone, manifest>>
vars ==
    <<config, resolved, state, disk, cache, gitignore, pc, params, idx, newSkills, result, io,
      clock, calls, prev, lastType, dedup, cleaned, clone, manifest>>

----------------------------------------------------------------------------
(* Strings *)

\* s.indexOf(c), 1-based; 0 where the code gets -1
IndexOf(s, c) ==
    IF \E i \in 1..Len(s) : s[i] = c
    THEN CHOOSE i \in 1..Len(s) : s[i] = c /\ \A j \in 1..(i - 1) : s[j] # c
    ELSE 0

\* s.lastIndexOf(c), 1-based; 0 where there is none
LastIndexOf(s, c) ==
    IF \E i \in 1..Len(s) : s[i] = c
    THEN CHOOSE i \in 1..Len(s) : s[i] = c /\ \A j \in (i + 1)..Len(s) : s[j] # c
    ELSE 0

\* s.includes(sub)
Includes(s, sub) ==
    \E i \in 0..(Len(s) - Len(sub)) : SubSeq(s, i + 1, i + Len(sub)) = sub

\* s.startsWith(pre)
StartsWith(s, pre) == Len(s) >= Len(pre) /\ SubSeq(s, 1, Len(pre)) = pre

RECURSIVE StripTrailingSlashes(_)
StripTrailingSlashes(p) ==
    IF Len(p) > 1 /\ p[Len(p)] = "/"
    THEN StripTrailingSlashes(SubSeq(p, 1, Len(p) - 1))
    ELSE p

\* path.basename(p) on POSIX: trailing slashes dropped, then the last segment
Basename(p) ==
    LET q == StripTrailingSlashes(p)
        k == LastIndexOf(q, "/")
    IN  IF q = <<"/">> THEN <<>> ELSE SubSeq(q, k + 1, Len(q))

----------------------------------------------------------------------------
(* Reference model: types.ts *)

LOCAL_SOURCE == <<"l", "o", "c", "a", "l">>

NoPath == <<>>

\* parseSource: ok = FALSE where the code throws "Invalid source format"
ParseSource(source) ==
    IF source = LOCAL_SOURCE
    THEN [ok |-> TRUE, owner |-> LOCAL_SOURCE, repo |-> LOCAL_SOURCE, ref |-> <<>>]
    ELSE LET atIndex == IndexOf(source, "@")
             ownerRepo == IF atIndex # 0 THEN SubSeq(source, 1, atIndex - 1) ELSE source
             ref == IF atIndex # 0 THEN SubSeq(source, atIndex + 1, Len(source)) ELSE <<>>
             slashIndex == IndexOf(ownerRepo, "/")
         IN  IF slashIndex = 0
             THEN [ok |-> FALSE, owner |-> <<>>, repo |-> <<>>, ref |-> <<>>]
             ELSE LET owner == SubSeq(ownerRepo, 1, slashIndex - 1)
                      repo == SubSeq(ownerRepo, slashIndex + 1, Len(ownerRepo))
                  IN  IF owner = <<>> \/ repo = <<>>
                      THEN [ok |-> FALSE, owner |-> <<>>, repo |-> <<>>, ref |-> <<>>]
                      ELSE [ok |-> TRUE, owner |-> owner, repo |-> repo, ref |-> ref]

\* deriveSkillName: ok = FALSE where parseSource throws
DeriveSkillName(ref) ==
    IF ref.path # NoPath
    THEN [ok |-> TRUE, name |-> Basename(ref.path)]
    ELSE LET parsed == ParseSource(ref.source)
         IN  [ok |-> parsed.ok, name |-> parsed.repo]

SkillTypes == {"global", "project", "conditional"}

----------------------------------------------------------------------------
(* Resolver: resolver.ts *)

typePriority(type) ==
    CASE type = "project" -> 2
      [] type = "global" -> 1
      [] type = "conditional" -> 0

\* skillKey: `${ref.source}::${ref.path ?? ""}`
skillKey(ref) == ref.source \o <<":", ":">> \o ref.path

\* Position in the Map `seen` (kept in insertion order) of the key, 0 if not there
SeenIndex(seen, key) ==
    IF \E i \in 1..Len(seen) : skillKey(seen[i].ref) = key
    THEN CHOOSE i \in 1..Len(seen) : skillKey(seen[i].ref) = key
    ELSE 0

RECURSIVE DedupFrom(_, _, _)
DedupFrom(skills, i, seen) ==
    IF i > Len(skills) THEN seen
    ELSE LET skill == skills[i]
             k == SeenIndex(seen, skillKey(skill.ref))
         IN  IF k = 0 THEN DedupFrom(skills, i + 1, Append(seen, skill))
             ELSE IF typePriority(skill.type) > typePriority(seen[k].type)
                  THEN DedupFrom(skills, i + 1, [seen EXCEPT ![k] = skill])
                  ELSE DedupFrom(skills, i + 1, seen)

\* deduplicateSkills: one entry per key, in order of first occurrence
deduplicateSkills(skills) == DedupFrom(skills, 1, <<>>)

\* The keys of the Map `groups`, in insertion order: base names by first occurrence
RECURSIVE GroupOrder(_, _, _)
GroupOrder(names, i, acc) ==
    IF i > Len(names) THEN acc
    ELSE IF \E j \in 1..Len(acc) : acc[j] = names[i]
         THEN GroupOrder(names, i + 1, acc)
         ELSE GroupOrder(names, i + 1, Append(acc, names[i]))

\* A faulty variant of NameGroup: every member of a group is given the owner of
\* the first member
NameGroupByFirstOwner(baseName, group) ==
    [k \in 1..Len(group) |->
        [ref |-> group[k].ref, type |-> group[k].type,
         installName |-> IF Len(group) = 1 THEN baseName
                         ELSE ParseSource(group[1].ref.source).owner \o <<".">> \o baseName]]

\* The resolved skills of one base-name group
NameGroup(baseName, group) ==
    IF Len(group) = 1
    THEN <<[ref |-> group[1].ref, type |-> group[1].type, installName |-> baseName]>>
    ELSE [k \in 1..Len(group) |->
            [ref |-> group[k].ref, type |-> group[k].type,
             installName |-> ParseSource(group[k].ref.source).owner \o <<".">> \o baseName]]

RECURSIVE ConcatGroups(_, _, _)
ConcatGroups(withNames, order, g) ==
    IF g > Len(order) THEN <<>>
    ELSE LET InGroup(e) == e.baseName = order[g]
         IN  NameGroup(order[g], SelectSeq(withNames, InGroup))
                \o ConcatGroups(withNames, order, g + 1)

\* resolveInstallNames: threw = TRUE where deriveSkillName or parseSource throws
resolveInstallNames(skills) ==
    LET derived == [k \in 1..Len(skills) |-> DeriveSkillName(skills[k].ref)]
        withNames == [k \in 1..Len(skills) |->
                        [ref |-> skills[k].ref, type |-> skills[k].type,
                         baseName |-> derived[k].name]]
        order == GroupOrder([k \in 1..Len(skills) |-> derived[k].name], 1, <<>>)
        Collides(k) == \E j \in 1..Len(skills) : j # k /\ derived[j].name = derived[k].name
    IN  IF \/ \E k \in 1..Len(skills) : ~derived[k].ok
           \/ \E k \in 1..Len(skills) : Collides(k) /\ ~ParseSource(skills[k].ref.source).ok
        THEN [threw |-> TRUE, skills |-> <<>>]
        ELSE [threw |-> FALSE, skills |-> ConcatGroups(withNames, order, 1)]

----------------------------------------------------------------------------
(* Paths: paths.ts.  Project keys are drawn without "." or ".." segments   *)
(* and without doubled slashes, which path.normalize would rewrite.        *)

HomeDir == <<"/", "h">>

Cwd == <<"/", "w">>

\* expandHome: "~" and "~/x" are taken under the home directory
expandHome(p) ==
    IF p = <<"~">> THEN HomeDir
    ELSE IF StartsWith(p, <<"~", "/">>)
         THEN HomeDir \o <<"/">> \o SubSeq(p, 3, Len(p))
         ELSE p

\* normalizePath: an absolute path is kept (path.normalize keeps a trailing
\* slash), a relative one is resolved against the working directory
normalizePath(p) ==
    LET expanded == expandHome(p)
    IN  IF StartsWith(expanded, <<"/">>)
        THEN expanded
        ELSE StripTrailingSlashes(Cwd \o <<"/">> \o expanded)

----------------------------------------------------------------------------
(* Scanner: scanner.ts.  A rule's glob is "**/*.<ext>", held as its <ext>; *)
(* a project file is [dir, ext], dir being the directory it lies in.       *)

EXCLUDED_DIRS ==
    {"node_modules", ".git", "dist", "build", "vendor", "__pycache__", ".venv",
     "target", "coverage", ".next", ".nuxt"}

\* The files of the project tree the resolver is run in
ProjectFiles ==
    {[dir |-> "src", ext |-> "tf"], [dir |-> "lib", ext |-> "tf"],
     [dir |-> "node_modules", ext |-> "py"]}

GlobMatches(when, file) == file.ext = when /\ file.dir \notin EXCLUDED_DIRS

\* A faulty variant of scanForConditionalMatches: no early exit, a rule is
\* pushed once for every matching file
RECURSIVE scanEveryMatch(_, _)
scanEveryMatch(files, rules) ==
    IF rules = <<>> THEN <<>>
    ELSE LET n == Cardinality({f \in files : GlobMatches(Head(rules).when, f)})
         IN  [j \in 1..n |-> Head(rules)] \o scanEveryMatch(files, Tail(rules))

\* scanForConditionalMatches: the rules with at least one matching file, in rule order
scanForConditionalMatches(files, rules) ==
    LET Matched(rule) == \E f \in files : GlobMatches(rule.when, f)
    IN  SelectSeq(rules, Matched)

----------------------------------------------------------------------------
(* Configuration: config.ts.  An absent section is an empty sequence;      *)
(* projects is the sequence of the object's [key, skills] entries.         *)

EmptyConfig == [global |-> <<>>, projects |-> <<>>, conditional |-> <<>>]

KeyIndex(projects, key) ==
    IF \E i \in 1..Len(projects) : projects[i].key = key
    THEN CHOOSE i \in 1..Len(projects) : projects[i].key = key
    ELSE 0

WhenIndex(rules, when) ==
    IF \E i \in 1..Len(rules) : rules[i].when = when
    THEN CHOOSE i \in 1..Len(rules) : rules[i].when = when /\ \A j \in 1..(i - 1) : rules[j].when # when
    ELSE 0

\* addSkillToConfig
addSkillToConfig(cfg, ref, target) ==
    CASE target.section = "global" ->
            [cfg EXCEPT !.global = Append(@, ref)]
      [] target.section = "project" ->
            LET k == KeyIndex(cfg.projects, target.projectRoot)
            IN  IF k = 0
                THEN [cfg EXCEPT !.projects = Append(@, [key |-> target.projectRoot, skills |-> <<ref>>])]
                ELSE [cfg EXCEPT !.projects[k].skills = Append(@, ref)]
      [] target.section = "conditional" ->
            LET k == WhenIndex(cfg.conditional, target.when)
            IN  IF k = 0
                THEN [cfg EXCEPT !.conditional = Append(@, [when |-> target.when, skills |-> <<ref>>])]
                ELSE [cfg EXCEPT !.conditional[k].skills = Append(@, ref)]

\* removeSkillFromConfig: the references with the source leave every section;
\* a conditional rule left without skills leaves too, a project entry stays
removeSkillFromConfig(cfg, source) ==
    LET Other(r) == r.source # source
        Filtered(entries) == [k \in 1..Len(entries) |->
                                [entries[k] EXCEPT !.skills = SelectSeq(@, Other)]]
        HasSkills(rule) == rule.skills # <<>>
    IN  [global |-> SelectSeq(cfg.global, Other),
         projects |-> Filtered(cfg.projects),
         conditional |-> SelectSeq(Filtered(cfg.conditional), HasSkills)]

\* The sources a configuration names
SourcesOf(cfg) ==
    {cfg.global[k].source : k \in 1..Len(cfg.global)}
    \cup UNION {{cfg.projects[j].skills[k].source : k \in 1..Len(cfg.projects[j].skills)} :
                   j \in 1..Len(cfg.projects)}
    \cup UNION {{cfg.conditional[j].skills[k].source : k \in 1..Len(cfg.conditional[j].skills)} :
                   j \in 1..Len(cfg.conditional)}

\* The number of references a configuration holds
RECURSIVE CountSkills(_)
CountSkills(entries) ==
    IF entries = <<>> THEN 0 ELSE Len(Head(entries).skills) + CountSkills(Tail(entries))

ConfigSize(cfg) == Len(cfg.global) + CountSkills(cfg.projects) + CountSkills(cfg.conditional)

----------------------------------------------------------------------------
(* resolveSkills: resolver.ts *)

Tag(refs, type) == [k \in 1..Len(refs) |-> [ref |-> refs[k], type |-> type]]

RECURSIVE TagProjects(_, _)
TagProjects(projects, normalizedRoot) ==
    IF projects = <<>> THEN <<>>
    ELSE (IF normalizePath(Head(projects).key) = normalizedRoot
          THEN Tag(Head(projects).skills, "project")
          ELSE <<>>) \o TagProjects(Tail(projects), normalizedRoot)

RECURSIVE TagRules(_)
TagRules(rules) ==
    IF rules = <<>> THEN <<>>
    ELSE Tag(Head(rules).skills, "conditional") \o TagRules(Tail(rules))

\* Steps 1 to 3 of resolveSkills: the tagged references, before deduplication
CollectTagged(cfg, projectRoot, files) ==
    Tag(cfg.global, "global")
        \o TagProjects(cfg.projects, normalizePath(projectRoot))
        \o TagRules(scanForConditionalMatches(files, cfg.conditional))

resolveSkills(cfg, projectRoot, files) ==
    resolveInstallNames(deduplicateSkills(CollectTagged(cfg, projectRoot, files)))

----------------------------------------------------------------------------
(* The inputs of the resolver specification *)

\* The most references a configuration holds
MaxRefs == 3

Str_a_t == <<"a", "/", "t">>

Str_b_t == <<"b", "/", "t">>

Str_a_t_at_1 == <<"a", "/", "t", "@", "1">>

Str_c_bdott == <<"c", "/", "b", ".", "t">>

RefA == [source |-> Str_a_t, path |-> NoPath]

RefB == [source |-> Str_b_t, path |-> NoPath]

\* the same owner and repository as RefA, pinned to ref "1"
RefAPinned == [source |-> Str_a_t_at_1, path |-> NoPath]

\* a repository whose name holds the collision separator
RefDot == [source |-> Str_c_bdott, path |-> NoPath]

\* two local skills whose directories share their last segment
RefLocalP == [source |-> LOCAL_SOURCE, path |-> <<"/", "p", "/", "t">>]

RefLocalQ == [source |-> LOCAL_SOURCE, path |-> <<"/", "q", "/", "t">>]

ResolverRefs == {RefA, RefB, RefAPinned, RefDot, RefLocalP, RefLocalQ}

ProjectRoot == <<"/", "p">>

OtherRoot == <<"/", "q">>

AddTargets ==
    {[section |-> "global"],
     [section |-> "project", projectRoot |-> ProjectRoot],
     [section |-> "project", projectRoot |-> OtherRoot],
     [section |-> "conditional", when |-> "tf"],
     [section |-> "conditional", when |-> "py"]}

NotResolved == [done |-> FALSE, threw |-> FALSE, skills |-> <<>>]

\* deduplicateSkills has not been applied; cleanCache has not been called
NoDedup ==
    [skills |-> <<>>, done |-> FALSE, result |-> <<>>,
     named |-> [threw |-> FALSE, skills |-> <<>>]]

\* cloneAndExtract has not been called
NoClone ==
    [pc |-> "idle", temp |-> FALSE, pending |-> FALSE, handlers |-> FALSE, alive |-> TRUE,
     cached |-> FALSE, outcome |-> "none", calls |-> 0, rmFailed |-> FALSE]

\* rewriteSkillName has not been called
NoManifest == [content |-> <<>>, installName |-> <<>>, done |-> FALSE, written |-> <<>>]

NoTree == [exists |-> FALSE, owners |-> {}, repos |-> {}, shas |-> {}]

NoCleaned == [done |-> FALSE, tree |-> NoTree, tree0 |-> NoTree, removed |-> 0, freedBytes |-> 0]

----------------------------------------------------------------------------
(* State store: state.ts.  A record of skills is a function from install   *)
(* names; the order of its keys is not modelled.                           *)

NoSkills == [n \in {} |-> 0]

emptyState == [version |-> 1, lastSync |-> 0, projects |-> [r \in {} |-> 0]]

emptyProjectState == [skills |-> NoSkills, gitignoreSuggested |-> FALSE]

getProjectState(st, projectRoot) ==
    IF projectRoot \in DOMAIN st.projects THEN st.projects[projectRoot] ELSE emptyProjectState

InstallNamesOf(resolvedSkills) == {resolvedSkills[k].installName : k \in 1..Len(resolvedSkills)}

\* The first resolved skill with the install name
SkillNamed(resolvedSkills, name) ==
    resolvedSkills[CHOOSE k \in 1..Len(resolvedSkills) : resolvedSkills[k].installName = name]

\* A faulty variant of isInSync: the recorded type has to match too
isInSyncSameType(st, projectRoot, resolvedSkills) ==
    LET installed == getProjectState(st, projectRoot).skills
    IN  /\ Cardinality(DOMAIN installed) = Cardinality(InstallNamesOf(resolvedSkills))
        /\ \A k \in 1..Len(resolvedSkills) :
              LET skill == resolvedSkills[k]
              IN  /\ skill.installName \in DOMAIN installed
                  /\ installed[skill.installName].source = skill.ref.source
                  /\ installed[skill.installName].path = skill.ref.path
                  /\ installed[skill.installName].type = skill.type

isInSync(st, projectRoot, resolvedSkills) ==
    LET installed == getProjectState(st, projectRoot).skills
    IN  /\ Cardinality(DOMAIN installed) = Cardinality(InstallNamesOf(resolvedSkills))
        /\ \A k \in 1..Len(resolvedSkills) :
              LET skill == resolvedSkills[k]
              IN  /\ skill.installName \in DOMAIN installed
                  /\ installed[skill.installName].source = skill.ref.source
                  /\ installed[skill.installName].path = skill.ref.path

getOrphanedSkills(st, projectRoot, resolvedSkills) ==
    {name \in DOMAIN getProjectState(st, projectRoot).skills :
        name \notin InstallNamesOf(resolvedSkills)}

\* A set as a sequence, in an order fixed by the set
RECURSIVE SeqOf(_)
SeqOf(set) ==
    IF set = {} THEN <<>>
    ELSE LET x == CHOOSE y \in set : TRUE IN <<x>> \o SeqOf(set \ {x})

\* A faulty variant of WithSkill: the entry is not written
WithSkillDropped(skills, name, entry) == skills

\* A record of skills with one key set
WithSkill(skills, name, entry) ==
    [n \in DOMAIN skills \cup {name} |-> IF n = name THEN entry ELSE skills[n]]

----------------------------------------------------------------------------
(* Agent directories: agents.ts.  An agent directory is named by its type; *)
(* two of the five agent types are modelled.                               *)

AGENT_DIRS == <<"claude", "copilot">>

AgentTypes == {"claude", "copilot"}

\* What detectAgentDirs can return when it finds a directory: the non-empty
\* subsequences of AGENT_DIRS
AgentLists == {<<"claude">>, <<"copilot">>, <<"claude", "copilot">>}

----------------------------------------------------------------------------
(* Content fetcher: fetcher.ts.  A cache entry [owner, repo, sha, path] is *)
(* the directory <cache>/github/<owner>/<repo>/<sha>[/<path>].             *)

NoSha == "undefined"

\* The commit `git clone [--branch ref]` of a source checks out
RemoteHead(source) == IF ParseSource(source).ref = <<>> THEN "sha1" ELSE "sha2"

\* getCachePath
getCachePath(parsed, commitSha, subpath) ==
    [owner |-> parsed.owner, repo |-> parsed.repo, sha |-> commitSha, path |-> subpath]

\* findCachedSkill: the cached directories that answer a remote reference; the
\* code returns the first in readdir order, {} where it returns null
findCachedSkill(ref, cacheDir) ==
    LET parsed == ParseSource(ref.source)
    IN  {e \in cacheDir :
            /\ e.owner = parsed.owner
            /\ e.repo = parsed.repo
            /\ (ref.path = NoPath \/ e.path = NoPath \/ e.path = ref.path)}

\* A faulty variant of fetchSkill: a remote reference is cloned even when the
\* cache answers it
fetchSkillAlwaysClone(ref, cacheDir) ==
    IF ref.source = LOCAL_SOURCE
    THEN {[threw |-> FALSE, cloned |-> FALSE, commitSha |-> NoSha, cache |-> cacheDir,
           path |-> [owner |-> LOCAL_SOURCE, repo |-> LOCAL_SOURCE, sha |-> NoSha,
                     path |-> ref.path]]}
    ELSE LET cachePath == getCachePath(ParseSource(ref.source), RemoteHead(ref.source), ref.path)
         IN  {[threw |-> FALSE, cloned |-> TRUE, commitSha |-> RemoteHead(ref.source),
               cache |-> cacheDir \cup {cachePath}, path |-> cachePath]}

\* The outcomes of fetchSkill(ref): it throws, or returns a path (the directory
\* the skill is copied from) and a commitSha, leaving the cache as `cache`
fetchSkill(ref, cacheDir) ==
    IF ref.source = LOCAL_SOURCE
    THEN \* resolveLocalSkill: the directory is there, or SkillNotFoundError
         {[threw |-> FALSE, cloned |-> FALSE, commitSha |-> NoSha, cache |-> cacheDir,
           path |-> [owner |-> LOCAL_SOURCE, repo |-> LOCAL_SOURCE, sha |-> NoSha,
                     path |-> ref.path]],
          [threw |-> TRUE, cloned |-> FALSE, commitSha |-> NoSha, cache |-> cacheDir,
           path |-> [owner |-> <<>>, repo |-> <<>>, sha |-> NoSha, path |-> NoPath]]}
    ELSE IF findCachedSkill(ref, cacheDir) # {}
    THEN \* cache hit: no commitSha is returned
         {[threw |-> FALSE, cloned |-> FALSE, commitSha |-> NoSha, cache |-> cacheDir,
           path |-> [e EXCEPT !.path = ref.path]] : e \in findCachedSkill(ref, cacheDir)}
    ELSE \* cache miss: cloneAndExtract clones and fills the cache, or throws
         LET cachePath == getCachePath(ParseSource(ref.source), RemoteHead(ref.source), ref.path)
         IN  {[threw |-> FALSE, cloned |-> TRUE, commitSha |-> RemoteHead(ref.source),
               cache |-> cacheDir \cup {cachePath}, path |-> cachePath],
              [threw |-> TRUE, cloned |-> TRUE, commitSha |-> NoSha, cache |-> cacheDir,
               path |-> [owner |-> <<>>, repo |-> <<>>, sha |-> NoSha, path |-> NoPath]]}

----------------------------------------------------------------------------
(* Sync orchestrator: syncer.ts.  disk[agent] is a function from the names *)
(* of the directories under the agent's skills path to their content:      *)
(* what the user put there, or a copy of the directory fetchSkill gave.    *)

NoEntry == [owner |-> <<>>, repo |-> <<>>, sha |-> NoSha, path |-> NoPath]

UserContent == [kind |-> "user", from |-> NoEntry]

CopyOf(sourcePath) == [kind |-> "skill", from |-> sourcePath]

\* fs.existsSync(destDir)
Exists(d, agent, name) == name \in DOMAIN d[agent]

\* fsp.rm(dest, {recursive, force})
RemoveDir(d, agent, name) ==
    [d EXCEPT ![agent] = [n \in (DOMAIN d[agent]) \ {name} |-> d[agent][n]]]

\* fsp.cp(src, dest, {recursive}) into an absent destination
WriteDir(d, agent, name, content) ==
    [d EXCEPT ![agent] = [n \in (DOMAIN d[agent]) \cup {name} |->
                              IF n = name THEN content ELSE d[agent][n]]]

\* copySkillToDir: remove, then copy
copySkillToDir(d, sourcePath, agent, name) ==
    WriteDir(RemoveDir(d, agent, name), agent, name, CopyOf(sourcePath))

\* removeSkillDir
removeSkillDir(d, agent, name) == RemoveDir(d, agent, name)

\* What a recursive copy that failed part of the way leaves at the destination
PartialCopyOf(sourcePath) == [kind |-> "partial", from |-> sourcePath]

\* The destination after a copySkillToDir call that threw: rm failed (the
\* destination is left as it was), mkdir or cp failed before anything was
\* written (the destination is gone), or cp failed after it had created the
\* destination (a part of the skill is left there)
FailedCopy(d, sourcePath, agent, name, mode) ==
    IF mode = "rm" THEN d
    ELSE IF mode = "cp" THEN RemoveDir(d, agent, name)
    ELSE WriteDir(RemoveDir(d, agent, name), agent, name, PartialCopyOf(sourcePath))

\* How one copySkillToDir call of a skill can fail: not at all (at = 0), or at
\* the at-th agent directory, in one of the three ways of FailedCopy
CopyFailures(agentDirs) ==
    {[at |-> 0, mode |-> "none"]}
        \cup {[at |-> j, mode |-> m] : j \in 1..Len(agentDirs), m \in {"rm", "cp", "partial"}}

\* The skip test of the per-agent loop
SkipUnmanaged(d, agent, installName, managedNames) ==
    Exists(d, agent, installName) /\ installName \notin managedNames

\* The per-agent loop of one skill, from the j-th agent directory on
RECURSIVE CopyToAgents(_, _, _, _, _, _, _, _)
CopyToAgents(skill, sourcePath, p, managedNames, fail, j, acc, k) ==
    IF j > Len(p.agentDirs) THEN acc
    ELSE LET agent == p.agentDirs[j]
             name == skill.installName
         IN  IF SkipUnmanaged(acc.disk, agent, name, managedNames)
             THEN CopyToAgents(skill, sourcePath, p, managedNames, fail, j + 1,
                      [acc EXCEPT !.skips = Append(@, [skill |-> k, agent |-> agent,
                                                     content |-> acc.disk[agent][name]])], k)
             ELSE IF p.dryRun
             THEN CopyToAgents(skill, sourcePath, p, managedNames, fail, j + 1,
                      [acc EXCEPT !.syncedAgents = Append(@, agent)], k)
             ELSE IF fail.at = j
             THEN [acc EXCEPT !.threw = TRUE,
                              !.copies = Append(@, [agent |-> agent, name |-> name]),
                              !.disk = FailedCopy(@, sourcePath, agent, name, fail.mode)]
             ELSE CopyToAgents(skill, sourcePath, p, managedNames, fail, j + 1,
                      [acc EXCEPT !.disk = copySkillToDir(@, sourcePath, agent, name),
                                  !.copies = Append(@, [agent |-> agent, name |-> name]),
                                  !.syncedAgents = Append(@, agent)], k)

\* err.message of what fetchSkill throws, and of what copySkillToDir throws
FetchMessage == <<"c", "l", "o", "n", "e">>

CopyMessage == <<"c", "o", "p", "y">>

\* A faulty variant of ErrorMessage: the install name is left out
MessageOnly(installName, message) == message

\* `${skill.installName}: ${message}`
ErrorMessage(installName, message) == installName \o <<":", " ">> \o message

InitialResult(st) ==
    [synced |-> <<>>, removed |-> <<>>, orphaned |-> <<>>, errors |-> <<>>,
     alreadyInSync |-> FALSE, gitignoreSuggestions |-> <<>>, updatedState |-> st]

NoParams ==
    [projectRoot |-> ProjectRoot, resolvedSkills |-> <<>>, agentDirs |-> <<>>,
     state |-> emptyState, dryRun |-> FALSE]

NoIo(d, c) ==
    [fetches |-> <<>>, clones |-> <<>>, copies |-> <<>>, skips |-> <<>>, removals |-> <<>>,
     outcomes |-> <<>>, gitignoreReads |-> 0, checked |-> FALSE, disk0 |-> d, cache0 |-> c]

\* A faulty variant of EarlyExit: the early exit is never taken
NeverEarlyExit(st, projectRoot, resolvedSkills) == FALSE

\* Step 1 of syncSkills: the early exit
EarlyExit(st, projectRoot, resolvedSkills) == isInSync(st, projectRoot, resolvedSkills)

\* The orphans of the running call, in the order the orphan loop takes them
OrphanSeq(p) == SeqOf(getOrphanedSkills(p.state, p.projectRoot, p.resolvedSkills))

\* Where the call goes after the per-skill loop, and after the orphan loop
AfterSkills(p) == IF OrphanSeq(p) = <<>> THEN "gitignore" ELSE "orphans"

\* The type each install name has in the latest resolved list that held it,
\* once the list resolvedSkills has been resolved
TypesAfter(types, resolvedSkills) ==
    [name \in DOMAIN types \cup InstallNamesOf(resolvedSkills) |->
        IF name \in InstallNamesOf(resolvedSkills)
        THEN SkillNamed(resolvedSkills, name).type
        ELSE types[name]]

\* The types recorded in a project's installed skills
TypesOf(skills) == [name \in DOMAIN skills |-> skills[name].type]

\* The runs of the command that are told apart, and the runs in which a fetch
\* or copy may fail when the command is repeated without end
MaxRuns == 4

FailingRuns == 2

\* The number of the next run, and the time of the next run: runs after the
\* MaxRuns-th are not told apart
CountRun(n) == IF n < MaxRuns THEN n + 1 ELSE n

\* syncSkills is called with the parameters p, the resolved list being
\* r.skills: the result is initialised and step 1 is taken
EnterSync(cfg, r, p) ==
    /\ ~r.threw
    /\ config' = cfg
    /\ resolved' = [done |-> TRUE, threw |-> r.threw, skills |-> r.skills]
    /\ params' = p
    /\ calls' = CountRun(calls)
    /\ clock' = CountRun(clock)
    /\ prev' = result
    /\ lastType' = TypesAfter(lastType, r.skills)
    /\ io' = [NoIo(disk, cache) EXCEPT !.checked = io.checked \/ io.gitignoreReads > 0]
    /\ newSkills' = NoSkills
    /\ idx' = 1
    /\ IF EarlyExit(state, ProjectRoot, r.skills)
       THEN /\ result' = [InitialResult(state) EXCEPT !.alreadyInSync = TRUE]
            /\ pc' = "done"
       ELSE /\ result' = InitialResult(state)
            /\ pc' = IF r.skills = <<>> THEN AfterSkills(p) ELSE "skills"
    /\ UNCHANGED <<state, disk, cache, gitignore, dedup, cleaned, clone, manifest>>

\* The command resolves the skills of the configuration and calls syncSkills
ResolveAndSync(cfg, agentDirs, dryRun, r) ==
    EnterSync(cfg, r, [projectRoot |-> ProjectRoot, resolvedSkills |-> r.skills,
                       agentDirs |-> agentDirs, state |-> state, dryRun |-> dryRun])

BeginSync(cfg, agentDirs, dryRun) ==
    ResolveAndSync(cfg, agentDirs, dryRun, resolveSkills(cfg, ProjectRoot, ProjectFiles))

\* One iteration of the per-skill loop (step 2): fetchSkill has outcome o and
\* the copies fail as `fail` says
SyncSkill(o, fail) ==
    LET skill == params.resolvedSkills[idx]
        name == skill.installName
        projectState == getProjectState(params.state, params.projectRoot)
        managedNames == DOMAIN projectState.skills
        acc == CopyToAgents(skill, o.path, params, managedNames, fail, 1,
                   [disk |-> disk, syncedAgents |-> <<>>, copies |-> <<>>, skips |-> <<>>,
                    threw |-> FALSE], idx)
        preserved == IF name \in DOMAIN projectState.skills
                     THEN WithSkill(newSkills, name, projectState.skills[name])
                     ELSE newSkills
        failed == o.threw \/ acc.threw
        fetched == [io EXCEPT !.fetches = Append(@, skill.ref),
                              !.clones = IF o.cloned THEN Append(@, skill.ref) ELSE @,
                              !.outcomes = Append(@, [failed |-> failed,
                                  agents |-> IF failed THEN <<>> ELSE acc.syncedAgents,
                                  hit |-> findCachedSkill(skill.ref, cache) # {},
                                  copied |-> IF o.threw THEN <<>> ELSE acc.syncedAgents,
                                  cloned |-> o.cloned, threw |-> o.threw,
                                  path |-> o.path, commitSha |-> o.commitSha])]
    IN  /\ pc = "skills"
        /\ o.threw => fail.at = 0
        /\ cache' = o.cache
        /\ IF o.threw
           THEN /\ result' = [result EXCEPT
                                 !.errors = Append(@, ErrorMessage(name, FetchMessage))]
                /\ newSkills' = preserved
                /\ io' = fetched
                /\ disk' = disk
           ELSE /\ disk' = acc.disk
                /\ io' = [fetched EXCEPT !.copies = @ \o acc.copies, !.skips = @ \o acc.skips]
                /\ IF acc.threw
                   THEN /\ result' = [result EXCEPT
                                         !.errors = Append(@, ErrorMessage(name, CopyMessage))]
                        /\ newSkills' = preserved
                   ELSE IF acc.syncedAgents # <<>>
                   THEN /\ result' = [result EXCEPT !.synced = Append(@, name)]
                        /\ newSkills' = WithSkill(newSkills, name,
                              [source |-> skill.ref.source, path |-> skill.ref.path,
                               commitSha |-> o.commitSha, syncedAt |-> clock,
                               agents |-> acc.syncedAgents, type |-> skill.type])
                   ELSE UNCHANGED <<result, newSkills>>
        /\ IF idx = Len(params.resolvedSkills)
           THEN idx' = 1 /\ pc' = AfterSkills(params)
           ELSE idx' = idx + 1 /\ pc' = "skills"
        /\ UNCHANGED <<config, resolved, state, gitignore, params, clock, calls, prev, lastType,
                       dedup, cleaned, clone, manifest>>

\* A faulty variant of RemoveFromAgents: nothing is deleted
RemoveNothing(d, agentDirs, name, failAt, j) == d

\* The directories removeSkillDir is called on for one conditional orphan; with
\* failAt = j the j-th call throws and the later ones are not made
RECURSIVE RemoveFromAgents(_, _, _, _, _)
RemoveFromAgents(d, agentDirs, name, failAt, j) ==
    IF j > Len(agentDirs) \/ j = failAt THEN d
    ELSE RemoveFromAgents(removeSkillDir(d, agentDirs[j], name), agentDirs, name, failAt, j + 1)

\* A faulty variant of IsAutoRemoved: every orphan is removed
AnyOrphanRemoved(installed) == TRUE

\* The orphans the orphan loop removes by itself
IsAutoRemoved(installed) == installed.type = "conditional"

\* One iteration of the orphan loop (step 3)
HandleOrphan(failAt) ==
    LET name == OrphanSeq(params)[idx]
        installed == getProjectState(params.state, params.projectRoot).skills[name]
        removes == IsAutoRemoved(installed) /\ ~params.dryRun
        last == IF failAt = 0 THEN Len(params.agentDirs) ELSE failAt
    IN  /\ pc = "orphans"
        /\ failAt # 0 => removes
        /\ IF removes
           THEN /\ disk' = RemoveFromAgents(disk, params.agentDirs, name, failAt, 1)
                /\ io' = [io EXCEPT !.removals =
                             @ \o [j \in 1..last |-> [agent |-> params.agentDirs[j], name |-> name]]]
           ELSE UNCHANGED <<disk, io>>
        /\ IF failAt # 0
           THEN /\ pc' = "thrown"
                /\ UNCHANGED <<result, newSkills, idx>>
           ELSE /\ IF IsAutoRemoved(installed)
                   THEN /\ result' = [result EXCEPT !.removed = Append(@, name)]
                        /\ newSkills' = newSkills
                   ELSE /\ result' = [result EXCEPT !.orphaned = Append(@, name)]
                        /\ newSkills' = WithSkill(newSkills, name, installed)
                /\ IF idx = Len(OrphanSeq(params))
                   THEN idx' = 1 /\ pc' = "gitignore"
                   ELSE idx' = idx + 1 /\ pc' = "orphans"
        /\ UNCHANGED <<config, resolved, state, cache, gitignore, params, clock, calls, prev,
                       lastType, dedup, cleaned, clone, manifest>>

\* checkGitignore: the agent directories .gitignore does not cover, in order
checkGitignore(covered, agentDirs) ==
    LET Uncovered(agent) == agent \notin covered IN SelectSeq(agentDirs, Uncovered)

\* Step 4: the one-time .gitignore check
CheckGitignore ==
    LET projectState == getProjectState(params.state, params.projectRoot)
    IN  /\ pc = "gitignore"
        /\ IF ~projectState.gitignoreSuggested
           THEN /\ result' = [result EXCEPT
                                 !.gitignoreSuggestions = checkGitignore(gitignore, params.agentDirs)]
                /\ io' = [io EXCEPT !.gitignoreReads = @ + 1]
           ELSE UNCHANGED <<result, io>>
        /\ pc' = "build"
        /\ UNCHANGED <<config, resolved, state, disk, cache, gitignore, params, idx, newSkills,
                       clock, calls, prev, lastType, dedup, cleaned, clone, manifest>>

\* A faulty variant of BuildUpdatedState: the input state is returned as it was
KeepInputState(p, skills, res, now) == p.state

\* A faulty variant of BuildUpdatedState: the state is built anew with the
\* project as its only one
BuildFreshState(p, skills, res, now) ==
    [version |-> 1, lastSync |-> now,
     projects |-> [r \in {p.projectRoot} |->
                      [skills |-> IF p.dryRun
                                  THEN getProjectState(p.state, p.projectRoot).skills
                                  ELSE skills,
                       gitignoreSuggested |-> res.gitignoreSuggestions # <<>>]]]

\* Step 5: the updated state
BuildUpdatedState(p, skills, res, now) ==
    LET projectState == getProjectState(p.state, p.projectRoot)
        project == [skills |-> IF p.dryRun THEN projectState.skills ELSE skills,
                    gitignoreSuggested |->
                        projectState.gitignoreSuggested \/ res.gitignoreSuggestions # <<>>]
        updatedState ==
            [p.state EXCEPT
                !.lastSync = now,
                !.projects = [r \in (DOMAIN p.state.projects) \cup {p.projectRoot} |->
                                 IF r = p.projectRoot THEN project ELSE p.state.projects[r]]]
    IN  IF p.dryRun THEN p.state ELSE updatedState

BuildState ==
    /\ pc = "build"
    /\ result' = [result EXCEPT !.updatedState = BuildUpdatedState(params, newSkills, result, clock)]
    /\ pc' = "done"
    /\ UNCHANGED <<config, resolved, state, disk, cache, gitignore, params, idx, newSkills, io,
                   clock, calls, prev, lastType, dedup, cleaned, clone, manifest>>

\* The default command after syncSkills returns: the state is saved unless the
\* project was in sync or the run is a dry run (cli.ts)
SaveState ==
    /\ pc = "done"
    /\ state' = IF ~result.alreadyInSync /\ ~params.dryRun THEN result.updatedState ELSE state
    /\ pc' = "idle"
    /\ UNCHANGED <<config, resolved, disk, cache, gitignore, params, idx, newSkills, result, io,
                   clock, calls, prev, lastType, dedup, cleaned, clone, manifest>>

----------------------------------------------------------------------------
(* The runs of the default command: cli.ts.  The command resolves the      *)
(* configuration, calls syncSkills and saves the state it returns.         *)

\* A configuration with a global list, a list under the project's own key and
\* a list under a rule that matches the project's files
Config(g, p, c) ==
    [global |-> g,
     projects |-> IF p = <<>> THEN <<>> ELSE <<[key |-> ProjectRoot, skills |-> p]>>,
     conditional |-> IF c = <<>> THEN <<>> ELSE <<[when |-> "tf", skills |-> c]>>]

\* The configurations the command is run with
SyncConfigs ==
    {Config(<<>>, <<>>, <<>>),
     Config(<<RefA>>, <<>>, <<>>),
     Config(<<RefB>>, <<>>, <<>>),
     Config(<<RefAPinned>>, <<>>, <<>>),
     Config(<<RefLocalP>>, <<>>, <<>>),
     Config(<<RefA, RefB>>, <<>>, <<>>),
     Config(<<RefA, RefAPinned>>, <<>>, <<>>),
     Config(<<RefAPinned, RefA>>, <<>>, <<>>),
     Config(<<>>, <<RefA>>, <<>>),
     Config(<<>>, <<>>, <<RefA>>),
     Config(<<RefA>>, <<>>, <<RefB>>),
     Config(<<>>, <<>>, <<RefB, RefA>>)}

\* The configurations the previous run of the command was made with
PriorConfigs ==
    {Config(<<>>, <<>>, <<>>),
     Config(<<RefA>>, <<>>, <<>>),
     Config(<<>>, <<RefB>>, <<>>),
     Config(<<>>, <<>>, <<RefA>>),
     Config(<<RefA>>, <<>>, <<RefB>>)}

\* The agent directories the previous run of the command found
PriorAgentLists == {<<"claude">>, <<"claude", "copilot">>}

\* The directories the user has put under the agents' skills paths
UserDirs ==
    {{},
     {[agent |-> "claude", name |-> <<"t">>]},
     {[agent |-> "claude", name |-> <<"t">>], [agent |-> "copilot", name |-> <<"t">>]},
     {[agent |-> "copilot", name |-> <<"a", ".", "t">>]}}

\* The agent directories .gitignore covers
GitignoreChoices == {{}, {"claude"}, {"claude", "copilot"}}

\* The state, the disk and the cache a run of the command with configuration
\* cfg0 and agent directories agents0 has left, all skills synced at commit
\* "sha0"; suggested tells whether the run made .gitignore suggestions
PriorResolved(cfg0) == resolveSkills(cfg0, ProjectRoot, ProjectFiles).skills

PriorSkill(cfg0, name) == SkillNamed(PriorResolved(cfg0), name)

\* The state entry the previous run wrote for a resolved skill
PriorEntry(skill, agents0) ==
    [source |-> skill.ref.source, path |-> skill.ref.path,
     commitSha |-> "sha0", syncedAt |-> 0, agents |-> agents0, type |-> skill.type]

PriorSkills(cfg0, agents0) ==
    [name \in InstallNamesOf(PriorResolved(cfg0)) |->
        PriorEntry(PriorSkill(cfg0, name), agents0)]

\* The cache directory the previous run filled for a reference
PriorCachePathOf(ref) == getCachePath(ParseSource(ref.source), "sha0", ref.path)

PriorCachePath(cfg0, name) == PriorCachePathOf(PriorSkill(cfg0, name).ref)

\* What the state file holds for another project the command was run in: a
\* rule's skill with the install name t
OtherProject ==
    [skills |-> [name \in {<<"t">>} |->
                    [source |-> Str_b_t, path |-> NoPath, commitSha |-> "sha2", syncedAt |-> 0,
                     agents |-> <<"claude">>, type |-> "conditional"]],
     gitignoreSuggested |-> FALSE]

PriorState(cfg0, agents0, suggested) ==
    IF PriorResolved(cfg0) = <<>> /\ ~suggested
    THEN emptyState
    ELSE [version |-> 1, lastSync |-> 0,
          projects |-> [r \in {ProjectRoot, OtherRoot} |->
                           IF r = OtherRoot THEN OtherProject
                           ELSE [skills |-> PriorSkills(cfg0, agents0),
                                 gitignoreSuggested |-> suggested]]]

PriorDisk(cfg0, agents0, user) ==
    LET Range(seq) == {seq[j] : j \in 1..Len(seq)}
        Managed(agent) == IF agent \in Range(agents0)
                          THEN InstallNamesOf(PriorResolved(cfg0)) ELSE {}
        Placed(agent) == {u.name : u \in {v \in user : v.agent = agent}}
    IN  [agent \in AgentTypes |->
            [name \in Managed(agent) \cup Placed(agent) |->
                IF name \in Managed(agent)
                THEN CopyOf(PriorCachePath(cfg0, name))
                ELSE UserContent]]

PriorCache(cfg0) ==
    {PriorCachePath(cfg0, name) : name \in InstallNamesOf(PriorResolved(cfg0))}

\* The user's directories are not the ones the previous run wrote
UserDirsFit(cfg0, agents0, user) ==
    \A u \in user :
        ~(u.name \in InstallNamesOf(PriorResolved(cfg0))
            /\ \E j \in 1..Len(agents0) : agents0[j] = u.agent)

Init ==
    \E cfg0 \in PriorConfigs, agents0 \in PriorAgentLists, user \in UserDirs,
       suggested \in BOOLEAN, covered \in GitignoreChoices :
        /\ UserDirsFit(cfg0, agents0, user)
        /\ PriorResolved(cfg0) = <<>> => agents0 = <<"claude">>
        /\ suggested => covered = {}
        /\ state = PriorState(cfg0, agents0, suggested)
        /\ disk = PriorDisk(cfg0, agents0, user)
        /\ cache = PriorCache(cfg0)
        /\ gitignore = covered
        /\ config = EmptyConfig
        /\ resolved = NotResolved
        /\ pc = "idle"
        /\ params = NoParams
        /\ idx = 1
        /\ newSkills = NoSkills
        /\ result = InitialResult(emptyState)
        /\ io = [NoIo(PriorDisk(cfg0, agents0, user), PriorCache(cfg0)) EXCEPT !.checked = suggested]
        /\ clock = 0
        /\ calls = 0
        /\ prev = InitialResult(emptyState)
        /\ lastType = TypesOf(PriorSkills(cfg0, agents0))
        /\ dedup = NoDedup
        /\ cleaned = NoCleaned
        /\ clone = NoClone
        /\ manifest = NoManifest

\* A faulty variant of exitCode: any reported error fails the command
exitCodeAnyError ==
    IF pc \in {"fatal", "thrown"} THEN 1
    ELSE IF pc = "noAgents" \/ result.alreadyInSync THEN 0
    ELSE IF result.errors # <<>> THEN 1 ELSE 0

\* process.exitCode when the default command has ended: handleErrors sets 1
\* for anything thrown inside the action; the action returns early without
\* agent directories and when the project is in sync, and otherwise sets 1
\* when the result has errors and no synced skill (dry run included)
exitCode ==
    IF pc \in {"fatal", "thrown"} THEN 1
    ELSE IF pc = "noAgents" \/ result.alreadyInSync THEN 0
    ELSE IF result.errors # <<>> /\ result.synced = <<>> THEN 1 ELSE 0

\* The command ends before syncSkills is called: ensureConfig, ensureAgentDirs
\* or resolveSkills throws and handleErrors reports it
FatalBeforeSync ==
    /\ pc = "idle"
    /\ calls = 0
    /\ pc' = "fatal"
    /\ UNCHANGED <<config, resolved, state, disk, cache, gitignore, params, idx, newSkills,
                   result, io, clock, calls, prev, lastType, dedup, cleaned, clone, manifest>>

\* The command finds no agent directory and returns: nothing to sync
NoAgentDirs ==
    /\ pc = "idle"
    /\ calls = 0
    /\ pc' = "noAgents"
    /\ UNCHANGED <<config, resolved, state, disk, cache, gitignore, params, idx, newSkills,
                   result, io, clock, calls, prev, lastType, dedup, cleaned, clone, manifest>>

\* The most runs of the command in one behaviour
MaxCalls == 2

\* The command is run for the first time in the behaviour
FirstSync(cfg, agentDirs, dryRun) ==
    /\ pc = "idle"
    /\ calls = 0
    /\ BeginSync(cfg, agentDirs, dryRun)

\* The command is run again, with the configuration and the agent directories
\* unchanged, after a run that saved its state and reported no error
Resync ==
    /\ pc = "idle"
    /\ calls > 0
    /\ calls < MaxCalls
    /\ ~params.dryRun
    /\ result.errors = <<>>
    /\ BeginSync(config, params.agentDirs, FALSE)

\* The remove command takes a source out of the configuration and the command
\* is run again, after a run that saved its state and reported no error
ResyncAfterRemove(source) ==
    /\ pc = "idle"
    /\ calls > 0
    /\ calls < MaxCalls
    /\ ~params.dryRun
    /\ result.errors = <<>>
    /\ source \in SourcesOf(config)
    /\ BeginSync(removeSkillFromConfig(config, source), params.agentDirs, FALSE)

Next ==
    \/ \E cfg \in SyncConfigs, agentDirs \in AgentLists, dryRun \in BOOLEAN :
          FirstSync(cfg, agentDirs, dryRun)
    \/ Resync
    \/ \E source \in {RefA.source, RefB.source, RefAPinned.source, RefLocalP.source} :
          ResyncAfterRemove(source)
    \/ /\ pc = "skills"
       /\ \E o \in fetchSkill(params.resolvedSkills[idx].ref, cache),
             fail \in CopyFailures(params.agentDirs) : SyncSkill(o, fail)
    \/ /\ pc = "orphans"
       /\ \E failAt \in 0..Len(params.agentDirs) : HandleOrphan(failAt)
    \/ CheckGitignore
    \/ BuildState
    \/ SaveState
    \/ FatalBeforeSync
    \/ NoAgentDirs

Spec == Init /\ [][Next]_vars

----------------------------------------------------------------------------
(* The resolver on its own: configurations are built by addSkillToConfig   *)
(* and resolved for the project root; nothing is synced.                   *)

InitResolver ==
    /\ config = EmptyConfig
    /\ resolved = NotResolved
    /\ state = emptyState
    /\ disk = [agent \in AgentTypes |-> NoSkills]
    /\ cache = {}
    /\ gitignore = {}
    /\ pc = "idle"
    /\ params = NoParams
    /\ idx = 1
    /\ newSkills = NoSkills
    /\ result = InitialResult(emptyState)
    /\ io = NoIo([agent \in AgentTypes |-> NoSkills], {})
    /\ clock = 0
    /\ calls = 0
    /\ prev = InitialResult(emptyState)
    /\ lastType = NoSkills
    /\ dedup = NoDedup
    /\ cleaned = NoCleaned
    /\ clone = NoClone
    /\ manifest = NoManifest

\* A reference is added to a section of the configuration
ApplyAddSkillToConfig(ref, target) ==
    /\ ConfigSize(config) < MaxRefs
    /\ config' = addSkillToConfig(config, ref, target)
    /\ resolved' = NotResolved
    /\ UNCHANGED syncVars
    /\ UNCHANGED pureVars

\* The configuration is resolved for the project root
ApplyResolveSkills ==
    /\ ~resolved.done
    /\ LET r == resolveSkills(config, ProjectRoot, ProjectFiles)
       IN  resolved' = [done |-> TRUE, threw |-> r.threw, skills |-> r.skills]
    /\ UNCHANGED config
    /\ UNCHANGED syncVars
    /\ UNCHANGED pureVars

NextResolver ==
    \/ \E ref \in ResolverRefs, target \in AddTargets : ApplyAddSkillToConfig(ref, target)
    \/ ApplyResolveSkills

SpecResolver == InitResolver /\ [][NextResolver]_vars

----------------------------------------------------------------------------
(* The collection steps of resolveSkills: configurations with fewer        *)
(* references and one more project key, the root written with a trailing   *)
(* slash.                                                                  *)

CollectRefs == {RefA, RefB, RefLocalP}

CollectTargets == AddTargets \cup {[section |-> "project", projectRoot |-> ProjectRoot \o <<"/">>]}

\* The most references of a configuration
MaxCollected == 3

AddCollected(ref, target) ==
    /\ ConfigSize(config) < MaxCollected
    /\ config' = addSkillToConfig(config, ref, target)
    /\ resolved' = NotResolved
    /\ UNCHANGED syncVars
    /\ UNCHANGED pureVars

NextCollect ==
    \/ \E ref \in CollectRefs, target \in CollectTargets : AddCollected(ref, target)
    \/ ApplyResolveSkills

SpecCollect == InitResolver /\ [][NextCollect]_vars

----------------------------------------------------------------------------
(* deduplicateSkills and resolveInstallNames on their own: a list of       *)
(* tagged references is built in any order and the two are applied to it.  *)

\* a subpath of RefA's repository
RefSub == [source |-> Str_a_t, path |-> <<"s">>]

\* two references whose source and path differ and whose `${source}::${path}` agree
RefColonPath == [source |-> Str_a_t, path |-> <<":", ":", "s">>]

RefColonSource == [source |-> Str_a_t \o <<":", ":">>, path |-> <<"s">>]

DedupRefs == {RefA, RefB, RefSub, RefColonPath, RefColonSource}

\* The most tagged references in a list
MaxTagged == 3

InitDedup ==
    /\ dedup = NoDedup
    /\ cleaned = NoCleaned
    /\ clone = NoClone
    /\ manifest = NoManifest
    /\ config = EmptyConfig
    /\ resolved = NotResolved
    /\ state = emptyState
    /\ disk = [agent \in AgentTypes |-> NoSkills]
    /\ cache = {}
    /\ gitignore = {}
    /\ pc = "idle"
    /\ params = NoParams
    /\ idx = 1
    /\ newSkills = NoSkills
    /\ result = InitialResult(emptyState)
    /\ io = NoIo([agent \in AgentTypes |-> NoSkills], {})
    /\ clock = 0
    /\ calls = 0
    /\ prev = InitialResult(emptyState)
    /\ lastType = NoSkills

\* tagged.push({ ref, type })
TagSkill(ref, type) ==
    /\ Len(dedup.skills) < MaxTagged
    /\ dedup' = [NoDedup EXCEPT !.skills = Append(dedup.skills, [ref |-> ref, type |-> type])]
    /\ UNCHANGED <<resolverVars, syncVars, cleaned, clone, manifest>>

\* Steps 4 and 5 of resolveSkills on the list
ApplyDeduplicate ==
    /\ ~dedup.done
    /\ dedup' = [dedup EXCEPT
                    !.done = TRUE,
                    !.result = deduplicateSkills(dedup.skills),
                    !.named = resolveInstallNames(deduplicateSkills(dedup.skills))]
    /\ UNCHANGED <<resolverVars, syncVars, cleaned, clone, manifest>>

NextDedup ==
    \/ \E ref \in DedupRefs, type \in SkillTypes : TagSkill(ref, type)
    \/ ApplyDeduplicate

SpecDedup == InitDedup /\ [][NextDedup]_vars

----------------------------------------------------------------------------
(* cleanCache on its own: fetcher.ts.  The cache is the tree               *)
(* github/<owner>/<repo>/<sha>: exists says whether the github directory   *)
(* is there, owners and repos are the directories of the first two levels, *)
(* shas the entries of the third, each with its recursive byte size and    *)
(* whether it is a directory.                                              *)

ShaDir(owner, repo, sha, size) ==
    [owner |-> owner, repo |-> repo, sha |-> sha, size |-> size, dir |-> TRUE]

\* The entries a repo directory of the cache can hold: commit directories
\* of a/t, b/t and b/u, and a plain file left in a/t
ShaEntries ==
    {ShaDir("a", "t", "sha0", 1), ShaDir("a", "t", "sha1", 2),
     ShaDir("b", "t", "sha1", 4), ShaDir("b", "u", "sha2", 8),
     [owner |-> "a", repo |-> "t", sha |-> "f", size |-> 16, dir |-> FALSE]}

RepoOf(d) == [owner |-> d.owner, repo |-> d.repo]

\* A cache tree holding the entries shas, and an empty repo directory and an
\* empty owner directory if asked for
Tree(shas, emptyRepo, emptyOwner) ==
    [exists |-> TRUE,
     owners |-> {d.owner : d \in shas} \cup (IF emptyRepo THEN {"a"} ELSE {})
                    \cup (IF emptyOwner THEN {"c"} ELSE {}),
     repos |-> {RepoOf(d) : d \in shas}
                    \cup (IF emptyRepo THEN {[owner |-> "a", repo |-> "e"]} ELSE {}),
     shas |-> shas]

CacheTrees ==
    {NoTree} \cup {Tree(shas, emptyRepo, emptyOwner) :
                      shas \in SUBSET ShaEntries, emptyRepo \in BOOLEAN, emptyOwner \in BOOLEAN}

\* The commitSha recorded for the one skill of a project; "none" for a
\* project the state does not hold
RecordedShas == {"none", NoSha, "sha0", "sha1", "sha2"}

\* A state with one skill in each of two projects
CacheState(sha1, sha2) ==
    LET Entry(sha) == [source |-> Str_a_t, path |-> NoPath, commitSha |-> sha,
                       syncedAt |-> 0, agents |-> <<"claude">>, type |-> "global"]
        Recorded(r) == IF r = ProjectRoot THEN sha1 ELSE sha2
    IN  [version |-> 1, lastSync |-> 0,
         projects |-> [r \in {q \in {ProjectRoot, OtherRoot} : Recorded(q) # "none"} |->
                          [skills |-> [n \in {<<"t">>} |-> Entry(Recorded(r))],
                           gitignoreSuggested |-> FALSE]]]

\* activeShas: every truthy commitSha of every skill of every project
activeShas(st) ==
    UNION {{st.projects[r].skills[n].commitSha : n \in DOMAIN st.projects[r].skills} :
              r \in DOMAIN st.projects}
    \ {NoSha}

\* The sum of the sizes of a set of entries
RECURSIVE SizeOf(_)
SizeOf(dirs) ==
    IF dirs = {} THEN 0
    ELSE LET d == CHOOSE x \in dirs : TRUE IN d.size + SizeOf(dirs \ {d})

\* A faulty variant of cleanCache: directories left empty stay
cleanCacheNoPrune(st, tree) ==
    IF ~tree.exists THEN [removed |-> 0, freedBytes |-> 0, tree |-> tree]
    ELSE LET stale == {d \in tree.shas : d.sha \notin activeShas(st) /\ d.dir}
         IN  [removed |-> Cardinality(stale), freedBytes |-> SizeOf(stale),
              tree |-> [tree EXCEPT !.shas = tree.shas \ stale]]

\* cleanCache: what it returns and the tree it leaves
cleanCache(st, tree) ==
    IF ~tree.exists THEN [removed |-> 0, freedBytes |-> 0, tree |-> tree]
    ELSE LET stale == {d \in tree.shas : d.sha \notin activeShas(st) /\ d.dir}
             shas == tree.shas \ stale
             repos == {r \in tree.repos : \E d \in shas : RepoOf(d) = r}
             owners == {o \in tree.owners : \E r \in repos : r.owner = o}
         IN  [removed |-> Cardinality(stale), freedBytes |-> SizeOf(stale),
              tree |-> [exists |-> TRUE, owners |-> owners, repos |-> repos, shas |-> shas]]

InitCache ==
    /\ \E tree \in CacheTrees : cleaned = [NoCleaned EXCEPT !.tree = tree, !.tree0 = tree]
    /\ \E sha1 \in RecordedShas, sha2 \in RecordedShas : state = CacheState(sha1, sha2)
    /\ dedup = NoDedup
    /\ clone = NoClone
    /\ manifest = NoManifest
    /\ config = EmptyConfig
    /\ resolved = NotResolved
    /\ disk = [agent \in AgentTypes |-> NoSkills]
    /\ cache = {}
    /\ gitignore = {}
    /\ pc = "idle"
    /\ params = NoParams
    /\ idx = 1
    /\ newSkills = NoSkills
    /\ result = InitialResult(emptyState)
    /\ io = NoIo([agent \in AgentTypes |-> NoSkills], {})
    /\ clock = 0
    /\ calls = 0
    /\ prev = InitialResult(emptyState)
    /\ lastType = NoSkills

\* The cache clean command
CleanCache ==
    /\ ~cleaned.done
    /\ LET r == cleanCache(state, cleaned.tree)
       IN  cleaned' = [done |-> TRUE, tree |-> r.tree, tree0 |-> cleaned.tree,
                       removed |-> r.removed, freedBytes |-> r.freedBytes]
    /\ UNCHANGED <<resolverVars, syncVars, dedup, clone, manifest>>

NextCache == CleanCache

SpecCache == InitCache /\ [][NextCache]_vars

----------------------------------------------------------------------------
(* cloneAndExtract on its own: fetcher.ts.  One process; clone.temp says   *)
(* whether the temporary clone directory exists, clone.pending whether it  *)
(* is in pendingCleanups, clone.handlers whether the exit and SIGINT       *)
(* handlers are registered, clone.alive whether the process still runs.    *)
(* Every step that touches the file system or runs git can fail.           *)

\* The most calls of cloneAndExtract in the process
MaxClones == 2

InitClone ==
    /\ clone = NoClone
    /\ dedup = NoDedup
    /\ cleaned = NoCleaned
    /\ manifest = NoManifest
    /\ config = EmptyConfig
    /\ resolved = NotResolved
    /\ state = emptyState
    /\ disk = [agent \in AgentTypes |-> NoSkills]
    /\ cache = {}
    /\ gitignore = {}
    /\ pc = "idle"
    /\ params = NoParams
    /\ idx = 1
    /\ newSkills = NoSkills
    /\ result = InitialResult(emptyState)
    /\ io = NoIo([agent \in AgentTypes |-> NoSkills], {})
    /\ clock = 0
    /\ calls = 0
    /\ prev = InitialResult(emptyState)
    /\ lastType = NoSkills

\* The other variables stay as they are
CloneFrame == UNCHANGED <<resolverVars, syncVars, dedup, cleaned, manifest>>

\* cloneAndExtract is called
CallClone ==
    /\ clone.alive
    /\ clone.pc \in {"idle", "returned", "thrown"}
    /\ clone.calls < MaxClones
    /\ clone' = [clone EXCEPT !.pc = "rmPrevious", !.calls = @ + 1, !.outcome = "none"]
    /\ CloneFrame

\* await fsp.rm(tempDir, ...).catch(() => {}): a previous failed attempt is
\* cleaned up, and a failure to do so is ignored
RmPrevious(ok) ==
    /\ clone.alive
    /\ clone.pc = "rmPrevious"
    /\ clone' = [clone EXCEPT !.pc = "register",
                              !.temp = IF ok THEN FALSE ELSE @,
                              !.rmFailed = @ \/ (clone.temp /\ ~ok)]
    /\ CloneFrame

\* registerCleanup(tempDir)
RegisterCleanup ==
    /\ clone.alive
    /\ clone.pc = "register"
    /\ clone' = [clone EXCEPT !.pc = "clone", !.handlers = TRUE, !.pending = TRUE]
    /\ CloneFrame

\* git clone into tempDir: it succeeds only when the directory is not there; a
\* failed or timed-out clone may or may not leave the directory behind
GitClone(ok, left) ==
    /\ clone.alive
    /\ clone.pc = "clone"
    /\ ok => ~clone.temp
    /\ clone' = [clone EXCEPT !.pc = IF ok THEN "revParse" ELSE "catch",
                              !.temp = IF ok THEN TRUE ELSE @ \/ left]
    /\ CloneFrame

\* git rev-parse HEAD
RevParse(ok) ==
    /\ clone.alive
    /\ clone.pc = "revParse"
    /\ clone' = [clone EXCEPT !.pc = IF ok THEN "verify" ELSE "catch"]
    /\ CloneFrame

\* The subpath is looked for: SkillNotFoundError when it is missing
VerifySubpath(found) ==
    /\ clone.alive
    /\ clone.pc = "verify"
    /\ clone' = [clone EXCEPT !.pc = IF found THEN "copy" ELSE "catch"]
    /\ CloneFrame

\* mkdir of the cache destination and fsp.cp
CopyToCache(ok) ==
    /\ clone.alive
    /\ clone.pc = "copy"
    /\ clone' = [clone EXCEPT !.pc = IF ok THEN "rmTemp" ELSE "catch", !.cached = @ \/ ok]
    /\ CloneFrame

\* await fsp.rm(tempDir, ...) on the success path, inside the try
RmTemp(ok) ==
    /\ clone.alive
    /\ clone.pc = "rmTemp"
    /\ clone' = [clone EXCEPT !.pc = IF ok THEN "unregister" ELSE "catch",
                              !.temp = IF ok THEN FALSE ELSE @,
                              !.rmFailed = @ \/ ~ok]
    /\ CloneFrame

\* unregisterCleanup(tempDir) and return
UnregisterAndReturn ==
    /\ clone.alive
    /\ clone.pc = "unregister"
    /\ clone' = [clone EXCEPT !.pc = "returned", !.pending = FALSE, !.outcome = "returned"]
    /\ CloneFrame

\* The catch block: await fsp.rm(tempDir, ...).catch(() => {})
CatchRm(ok) ==
    /\ clone.alive
    /\ clone.pc = "catch"
    /\ clone' = [clone EXCEPT !.pc = "catchUnregister",
                              !.temp = IF ok THEN FALSE ELSE @,
                              !.rmFailed = @ \/ (clone.temp /\ ~ok)]
    /\ CloneFrame

\* The catch block: unregisterCleanup(tempDir) and throw
UnregisterAndThrow ==
    /\ clone.alive
    /\ clone.pc = "catchUnregister"
    /\ clone' = [clone EXCEPT !.pc = "thrown", !.pending = FALSE, !.outcome = "thrown"]
    /\ CloneFrame

\* SIGINT or process exit: with the handlers registered, cleanup removes every
\* directory of pendingCleanups (best effort) and clears the set; without
\* them the process just ends
Interrupt(ok) ==
    /\ clone.alive
    /\ clone.pc # "idle"
    /\ clone' = [clone EXCEPT
                    !.alive = FALSE,
                    !.temp = IF clone.handlers /\ clone.pending /\ ok THEN FALSE ELSE @,
                    !.pending = IF clone.handlers THEN FALSE ELSE @,
                    !.rmFailed = @ \/ (clone.handlers /\ clone.pending /\ clone.temp /\ ~ok)]
    /\ CloneFrame

NextClone ==
    \/ CallClone
    \/ \E ok \in BOOLEAN : RmPrevious(ok)
    \/ RegisterCleanup
    \/ \E ok \in BOOLEAN, left \in BOOLEAN : GitClone(ok, left)
    \/ \E ok \in BOOLEAN : RevParse(ok)
    \/ \E found \in BOOLEAN : VerifySubpath(found)
    \/ \E ok \in BOOLEAN : CopyToCache(ok)
    \/ \E ok \in BOOLEAN : RmTemp(ok)
    \/ UnregisterAndReturn
    \/ \E ok \in BOOLEAN : CatchRm(ok)
    \/ UnregisterAndThrow
    \/ \E ok \in BOOLEAN : Interrupt(ok)

SpecClone == InitClone /\ [][NextClone]_vars

----------------------------------------------------------------------------
(* Repeated runs of the default command on a new project: the state is     *)
(* empty and the agent directories hold no skill at the start, the         *)
(* configuration stays the same, and fetches and copies fail in the first   *)
(* runs only.                                                               *)

\* The state file does not exist and no agent directory holds a skill
InitConverge ==
    /\ state = emptyState
    /\ disk = [agent \in AgentTypes |-> NoSkills]
    /\ cache = {}
    /\ gitignore = {}
    /\ config = EmptyConfig
    /\ resolved = NotResolved
    /\ pc = "idle"
    /\ params = NoParams
    /\ idx = 1
    /\ newSkills = NoSkills
    /\ result = InitialResult(emptyState)
    /\ io = NoIo([agent \in AgentTypes |-> NoSkills], {})
    /\ clock = 0
    /\ calls = 0
    /\ prev = InitialResult(emptyState)
    /\ lastType = NoSkills
    /\ dedup = NoDedup
    /\ cleaned = NoCleaned
    /\ clone = NoClone
    /\ manifest = NoManifest

\* The first run, with a configuration whose resolved list r has distinct
\* install names
FirstRun(cfg, agentDirs, r) ==
    /\ pc = "idle"
    /\ calls = 0
    /\ Cardinality(InstallNamesOf(r.skills)) = Len(r.skills)
    /\ ResolveAndSync(cfg, agentDirs, FALSE, r)

\* The command is run again with the same configuration: syncSkills gets the
\* state the previous run saved, or the state left as it was when the
\* previous run threw
Rerun ==
    /\ pc \in {"idle", "thrown"}
    /\ calls > 0
    /\ ResolveAndSync(config, params.agentDirs, FALSE, resolved)

\* One iteration of the per-skill loop; nothing fails after the first runs
SyncSkillConverge(o, fail) ==
    /\ pc = "skills"
    /\ calls <= FailingRuns \/ (~o.threw /\ fail.at = 0)
    /\ SyncSkill(o, fail)

NextConverge ==
    \/ \E cfg \in SyncConfigs, agentDirs \in AgentLists :
          FirstRun(cfg, agentDirs, resolveSkills(cfg, ProjectRoot, ProjectFiles))
    \/ Rerun
    \/ /\ pc = "skills"
       /\ \E o \in fetchSkill(params.resolvedSkills[idx].ref, cache),
             fail \in CopyFailures(params.agentDirs) : SyncSkillConverge(o, fail)
    \/ CheckGitignore
    \/ BuildState
    \/ SaveState

\* Every run of the command goes on to its end, and the command is run again
SpecConverge == InitConverge /\ [][NextConverge]_vars /\ WF_vars(NextConverge)

----------------------------------------------------------------------------
(* The manifest name rewrite on its own: syncer.ts.  The content of a      *)
(* SKILL.md file is a sequence of characters.                              *)

Dashes == <<"-", "-", "-">>

NameKey == <<"n", "a", "m", "e", ":">>

\* The characters \s matches, of those the files hold
White == {" ", "\n"}

\* sub occurs in s at the position i
OccursAt(s, sub, i) ==
    /\ i >= 1
    /\ i + Len(sub) - 1 <= Len(s)
    /\ SubSeq(s, i, i + Len(sub) - 1) = sub

\* The least member of a non-empty set of numbers
Least(set) == CHOOSE i \in set : \A j \in set : i <= j

\* s.indexOf(sub, from), positions counted from 1; 0 for -1
IndexOfFrom(s, sub, from) ==
    LET found == {i \in from..Len(s) : OccursAt(s, sub, i)}
    IN  IF found = {} THEN 0 ELSE Least(found)

\* frontmatter.replace(/^(name:\s*).+$/m, `$1${newName}`): the first line
\* start where name: stands, the white space after it (line ends included)
\* and the rest of the line the white space ends in.  The front matter ends
\* in a dash, so the white space never runs to its end.
ReplaceName(frontmatter, newName) ==
    LET n == Len(frontmatter)
        Matches(p) ==
            /\ p = 1 \/ frontmatter[p - 1] = "\n"
            /\ OccursAt(frontmatter, NameKey, p)
            /\ \E q \in (p + Len(NameKey))..n : frontmatter[q] \notin White
        starts == {p \in 1..n : Matches(p)}
    IN  IF starts = {} THEN frontmatter
        ELSE LET p == Least(starts)
                 q == Least({i \in (p + Len(NameKey))..n : frontmatter[i] \notin White})
                 r == Least({i \in q..n : i = n \/ frontmatter[i + 1] = "\n"})
             IN  SubSeq(frontmatter, 1, q - 1) \o newName \o SubSeq(frontmatter, r + 1, n)

\* rewriteSkillName: the content of the file after the call
rewriteSkillName(content, newName) ==
    IF ~StartsWith(content, Dashes) THEN content
    ELSE LET endIndex == IndexOfFrom(content, Dashes, 4)
         IN  IF endIndex = 0 THEN content
             ELSE LET frontmatter == SubSeq(content, 1, endIndex + 2)
                      rest == SubSeq(content, endIndex + 3, Len(content))
                      updated == ReplaceName(frontmatter, newName)
                  IN  IF updated # frontmatter THEN updated \o rest ELSE content

\* The lines SKILL.md files are made of: the delimiter, a name line, a name
\* line without a value, another key, a line with dashes in it, and a line
\* with name: in it
ManifestLines ==
    {Dashes,
     NameKey \o <<" ", "x">>,
     NameKey,
     <<"d", ":", " ", "y">>,
     <<"d", ":", " ", "y", "-", "-", "-", "z">>,
     <<"s", "e", "e", " ">> \o NameKey \o <<" ", "x">>}

\* The most lines of a file
MaxManifestLines == 4

\* The lines, each followed by a line end
RECURSIVE JoinLines(_)
JoinLines(lines) ==
    IF lines = <<>> THEN <<>> ELSE Head(lines) \o <<"\n">> \o JoinLines(Tail(lines))

ManifestFiles ==
    UNION {[1..n -> ManifestLines] : n \in 0..MaxManifestLines}

\* The install names of the copied skill: one made by a collision, one not
ManifestNames == {<<"a", ".", "t">>, <<"t">>}

\* copySkillToDir has copied a skill whose SKILL.md has some content
InitManifest ==
    /\ \E file \in ManifestFiles, name \in ManifestNames :
          manifest = [content |-> JoinLines(file), installName |-> name, done |-> FALSE,
                      written |-> JoinLines(file)]
    /\ dedup = NoDedup
    /\ cleaned = NoCleaned
    /\ clone = NoClone
    /\ config = EmptyConfig
    /\ resolved = NotResolved
    /\ state = emptyState
    /\ disk = [agent \in AgentTypes |-> NoSkills]
    /\ cache = {}
    /\ gitignore = {}
    /\ pc = "idle"
    /\ params = NoParams
    /\ idx = 1
    /\ newSkills = NoSkills
    /\ result = InitialResult(emptyState)
    /\ io = NoIo([agent \in AgentTypes |-> NoSkills], {})
    /\ clock = 0
    /\ calls = 0
    /\ prev = InitialResult(emptyState)
    /\ lastType = NoSkills

\* The step after copySkillToDir: the name is rewritten for an install name
\* with a dot in it
RewriteAfterCopy ==
    /\ ~manifest.done
    /\ manifest' = [manifest EXCEPT
                       !.done = TRUE,
                       !.written = IF Includes(manifest.installName, <<".">>)
                                   THEN rewriteSkillName(manifest.content, manifest.installName)
                                   ELSE manifest.content]
    /\ UNCHANGED <<resolverVars, syncVars, dedup, cleaned, clone>>

NextManifest == RewriteAfterCopy

SpecManifest == InitManifest /\ [][NextManifest]_vars

----------------------------------------------------------------------------
(* Properties of the sync orchestrator                                     *)

Range(seq) == {seq[j] : j \in 1..Len(seq)}

\* The latest syncSkills call has returned
Returned == calls > 0 /\ pc \in {"done", "idle"}

\* The project's skills in the state the latest call was given, and in the
\* state it returned
PriorInstalled == getProjectState(params.state, params.projectRoot).skills

UpdatedInstalled == getProjectState(result.updatedState, params.projectRoot).skills

ResolvedNames == InstallNamesOf(params.resolvedSkills)

\* The k-th resolved skill of the latest call failed (fetch or copy threw);
\* it reached at least one agent target without failing
Failed(k) == io.outcomes[k].failed

Reached(k) == ~io.outcomes[k].failed /\ io.outcomes[k].agents # <<>>

\* The position in the resolved list of the i-th skill that satisfies P
NthWhere(P(_), i) ==
    CHOOSE k \in 1..Len(io.outcomes) :
        P(k) /\ Cardinality({j \in 1..k : P(j)}) = i

\* A result that reports no error, no orphaned name, and every resolved
\* install name exactly once in synced
EachSyncedOnce(res, rs) ==
    /\ Len(res.synced) = Len(rs)
    /\ \A k \in 1..Len(rs) :
          Cardinality({j \in 1..Len(res.synced) : res.synced[j] = rs[k].installName}) = 1

CleanRun(res, rs) ==
    /\ ~res.alreadyInSync
    /\ res.errors = <<>>
    /\ res.orphaned = <<>>
    /\ EachSyncedOnce(res, rs)

\* The second call of a behaviour is given the state the first one returned
\* and the same resolved list (the configuration and the files are the same)
SecondCall == calls >= 2 /\ params.state = prev.updatedState

NoFetchNoCopy == io.fetches = <<>> /\ io.copies = <<>>

\* C1 as stated: every non-dry-run call that finishes with no errors returns
\* a state that is in sync with the resolved list, and a second call given
\* that state and the same list returns alreadyInSync = true and makes no
\* fetch and no copy call.
C1_AsStated ==
    /\ (Returned /\ ~params.dryRun /\ result.errors = <<>>)
          => isInSync(result.updatedState, params.projectRoot, params.resolvedSkills)
    /\ (SecondCall /\ prev.errors = <<>>)
          => (result.alreadyInSync /\ NoFetchNoCopy)

\* C1, in-sync idempotence: if a non-dry-run call that runs the loops finishes
\* with no errors and no orphaned names, and synced holds every resolved
\* install name exactly once, then the returned state is in sync with the
\* resolved list, and a second call given that state and the same list
\* returns alreadyInSync = true and makes no fetch and no copy call.
C1_InSyncIdempotence ==
    /\ (Returned /\ ~params.dryRun /\ CleanRun(result, params.resolvedSkills))
          => isInSync(result.updatedState, params.projectRoot, params.resolvedSkills)
    /\ (SecondCall /\ CleanRun(prev, params.resolvedSkills))
          => (result.alreadyInSync /\ NoFetchNoCopy /\ pc \in {"done", "idle"})

\* A clean first call that fetched and copied a skill the prior state did not
\* hold, followed by a second call
C1_Witness ==
    /\ SecondCall
    /\ pc = "done"
    /\ CleanRun(prev, params.resolvedSkills)
    /\ prev.synced # <<>>
    /\ result.alreadyInSync

\* C2 as stated, partial failure preserves history: after a non-dry-run call,
\* every resolved skill that failed and whose install name the prior state
\* holds has its prior entry, equal in every field, in the returned state,
\* and a failing skill with no prior entry has no entry.
C2_PreservesHistory ==
    (Returned /\ ~params.dryRun /\ ~result.alreadyInSync) =>
        \A k \in 1..Len(params.resolvedSkills) :
            LET name == params.resolvedSkills[k].installName
            IN  Failed(k) =>
                    IF name \in DOMAIN PriorInstalled
                    THEN /\ name \in DOMAIN UpdatedInstalled
                         /\ UpdatedInstalled[name] = PriorInstalled[name]
                    ELSE name \notin DOMAIN UpdatedInstalled

\* The number of resolved skills the per-skill loop has gone through
Attempted == IF pc = "skills" THEN idx - 1 ELSE Len(params.resolvedSkills)

\* Every resolved skill is attempted once, in list order, whatever failed
\* before it, and each failing skill adds one error that holds its name
AttemptsAndErrors ==
    /\ Len(io.fetches) = Attempted
    /\ Len(io.outcomes) = Attempted
    /\ \A k \in 1..Attempted : io.fetches[k] = params.resolvedSkills[k].ref
    /\ pc = "thrown" => Attempted = Len(params.resolvedSkills)
    /\ Len(result.errors) = Cardinality({k \in 1..Attempted : Failed(k)})
    /\ \A i \in 1..Len(result.errors) :
          Includes(result.errors[i], params.resolvedSkills[NthWhere(Failed, i)].installName)

\* C3 as stated: every resolved skill is attempted exactly once in list order,
\* each failing skill adds exactly one error holding its install name, and
\* every skill whose fetch and copies did not fail is in synced.
C3_AsStated ==
    (calls > 0 /\ ~result.alreadyInSync) =>
        /\ AttemptsAndErrors
        /\ \A k \in 1..Attempted :
              ~Failed(k) => params.resolvedSkills[k].installName \in Range(result.synced)

\* C3, no abort on a skill's failure: every resolved skill is attempted
\* exactly once in list order, each failing skill adds exactly one error
\* holding its install name, and synced lists, in order, exactly the skills
\* that did not fail and reached at least one agent target.
C3_NeverAborts ==
    (calls > 0 /\ ~result.alreadyInSync) =>
        /\ AttemptsAndErrors
        /\ Len(result.synced) = Cardinality({k \in 1..Attempted : Reached(k)})
        /\ \A i \in 1..Len(result.synced) :
              result.synced[i] = params.resolvedSkills[NthWhere(Reached, i)].installName

\* A call whose first skill failed and whose second skill was synced
C3_Witness ==
    /\ Returned
    /\ Len(params.resolvedSkills) = 2
    /\ Len(io.outcomes) = 2
    /\ Failed(1)
    /\ Reached(2)
    /\ Len(result.errors) = 1
    /\ result.synced = <<params.resolvedSkills[2].installName>>

\* The orphans of the latest call: names the prior state holds and the
\* resolved list does not
ConditionalOrphans ==
    {name \in DOMAIN PriorInstalled :
        PriorInstalled[name].type = "conditional" /\ name \notin ResolvedNames}

ExplicitOrphans ==
    {name \in DOMAIN PriorInstalled :
        PriorInstalled[name].type \in {"global", "project"} /\ name \notin ResolvedNames}

\* C4, conditional orphan removal: after a non-dry-run call, every skill the
\* prior state holds with type conditional and whose install name is not
\* resolved has no directory in any agent target, is listed in removed and
\* has no entry in the returned state.
C4_ConditionalOrphanRemoval ==
    (Returned /\ ~params.dryRun) =>
        \A name \in ConditionalOrphans :
            /\ \A j \in 1..Len(params.agentDirs) : ~Exists(disk, params.agentDirs[j], name)
            /\ name \in Range(result.removed)
            /\ name \notin DOMAIN UpdatedInstalled

\* A non-dry-run call has returned that found a conditional orphan with a
\* directory in one of its agent targets
C4_Witness ==
    /\ Returned
    /\ ~params.dryRun
    /\ \E name \in ConditionalOrphans :
          /\ \E j \in 1..Len(params.agentDirs) : Exists(io.disk0, params.agentDirs[j], name)
          /\ name \in Range(result.removed)

\* C5, explicit orphan retention: in any call, every skill the prior state
\* holds with type global or project and whose install name is not resolved
\* keeps every directory it has in any agent target, unmodified, and once the
\* call has returned it is listed in orphaned, not in removed, and its entry
\* in the returned state equals its prior entry.
C5_ExplicitOrphanRetention ==
    calls > 0 =>
        \A name \in ExplicitOrphans :
            /\ \A agent \in AgentTypes :
                  /\ Exists(disk, agent, name) <=> Exists(io.disk0, agent, name)
                  /\ Exists(disk, agent, name) => disk[agent][name] = io.disk0[agent][name]
            /\ Returned =>
                  /\ name \in Range(result.orphaned)
                  /\ name \notin Range(result.removed)
                  /\ name \in DOMAIN UpdatedInstalled
                  /\ UpdatedInstalled[name] = PriorInstalled[name]

\* A non-dry-run call has returned that synced a skill and found an explicit
\* orphan with a directory in one of its agent targets
C5_Witness ==
    /\ Returned
    /\ ~params.dryRun
    /\ result.synced # <<>>
    /\ \E name \in ExplicitOrphans :
          \E j \in 1..Len(params.agentDirs) : Exists(disk, params.agentDirs[j], name)

\* C6 as stated, dry-run purity: a dry-run call changes no agent target and
\* does not write to the cache directory, and it returns the input state.
C6_DryRunPurity ==
    (calls > 0 /\ params.dryRun) =>
        /\ disk = io.disk0
        /\ cache = io.cache0
        /\ Returned => result.updatedState = params.state

\* C7, fast path: when the state the call is given is in sync with the
\* resolved list, the call (dry-run or not) returns at once with
\* alreadyInSync = true, empty synced, removed, orphaned, errors and
\* gitignoreSuggestions, and the input state as updatedState, having made no
\* fetch, no copy, no directory deletion and no .gitignore read.
C7_FastPath ==
    (calls > 0 /\ isInSync(params.state, params.projectRoot, params.resolvedSkills)) =>
        /\ pc \in {"done", "idle"}
        /\ result.alreadyInSync
        /\ result.synced = <<>>
        /\ result.removed = <<>>
        /\ result.orphaned = <<>>
        /\ result.errors = <<>>
        /\ result.gitignoreSuggestions = <<>>
        /\ result.updatedState = params.state
        /\ io.fetches = <<>>
        /\ io.clones = <<>>
        /\ io.copies = <<>>
        /\ io.removals = <<>>
        /\ io.gitignoreReads = 0
        /\ disk = io.disk0
        /\ cache = io.cache0

\* A call given a state in sync with a non-empty resolved list has returned;
\* the project has not had its .gitignore suggestions yet
C7_Witness ==
    /\ Returned
    /\ result.alreadyInSync
    /\ params.resolvedSkills # <<>>
    /\ isInSync(params.state, params.projectRoot, params.resolvedSkills)
    /\ ~getProjectState(params.state, params.projectRoot).gitignoreSuggested

\* C8 as stated, unmanaged skip: a destination that exists under an install
\* name the prior state does not hold keeps its content and is not counted as
\* reached, and a skill skipped in every target is in neither synced nor
\* errors and has no entry in the returned state.
C8_UnmanagedSkip ==
    calls > 0 =>
        /\ \A i \in 1..Len(io.skips) :
              LET skip == io.skips[i]
                  name == params.resolvedSkills[skip.skill].installName
              IN  /\ Exists(disk, skip.agent, name)
                  /\ disk[skip.agent][name] = skip.content
                  /\ skip.skill <= Len(io.outcomes)
                        => skip.agent \notin Range(io.outcomes[skip.skill].agents)
        /\ (Returned /\ ~result.alreadyInSync) =>
              \A k \in 1..Len(params.resolvedSkills) :
                  LET name == params.resolvedSkills[k].installName
                  IN  (~Failed(k) /\ ~Reached(k)) =>
                          /\ name \notin Range(result.synced)
                          /\ \A i \in 1..Len(result.errors) :
                                ~StartsWith(result.errors[i], name \o <<":", " ">>)
                          /\ name \notin DOMAIN UpdatedInstalled

----------------------------------------------------------------------------
(* Properties of the resolver                                              *)

\* C9 as stated: the install names of the list resolveSkills returns are
\* pairwise distinct.
C9_DistinctInstallNames ==
    (resolved.done /\ ~resolved.threw) =>
        \A j, k \in 1..Len(resolved.skills) :
            j # k => resolved.skills[j].installName # resolved.skills[k].installName

\* The deduplicated skills resolveInstallNames is given for the configuration
Deduplicated == deduplicateSkills(CollectTagged(config, ProjectRoot, ProjectFiles))

\* The positions of the deduplicated skills that share the base name of ref
SharingBase(skills, ref) ==
    {k \in 1..Len(skills) : DeriveSkillName(skills[k].ref).name = DeriveSkillName(ref).name}

\* The install name resolveInstallNames gives the reference ref in its result
InstallNameIn(resolvedSkills, ref) ==
    {resolvedSkills[k].installName : k \in {j \in 1..Len(resolvedSkills) : resolvedSkills[j].ref = ref}}

\* The sub-sequence of skills at the positions in keep
Sublist(skills, keep) ==
    LET Kept(k) == k \in keep
        positions == SelectSeq([k \in 1..Len(skills) |-> k], Kept)
    IN  [i \in 1..Len(positions) |-> skills[positions[i]]]

\* C10, collision naming: a skill whose base name no other deduplicated skill
\* shares is named by that base name, every member of a group of two or more
\* is named "{owner}.{baseName}" with the owner of its own source, and a
\* group is named the same whichever of the other groups' skills are present.
C10_CollisionNaming ==
    (resolved.done /\ ~resolved.threw) =>
        LET deduped == Deduplicated
        IN  /\ Len(resolved.skills) = Len(deduped)
            /\ \A k \in 1..Len(deduped) :
                  LET ref == deduped[k].ref
                      baseName == DeriveSkillName(ref).name
                      group == SharingBase(deduped, ref)
                      expected == IF Cardinality(group) = 1
                                  THEN baseName
                                  ELSE ParseSource(ref.source).owner \o <<".">> \o baseName
                  IN  /\ InstallNameIn(resolved.skills, ref) = {expected}
                      /\ \A others \in SUBSET ((1..Len(deduped)) \ group) :
                            InstallNameIn(
                                resolveInstallNames(Sublist(deduped, group \cup others)).skills,
                                ref) = {expected}

\* A resolved list with a group of two and a group of one
C10_Witness ==
    /\ resolved.done
    /\ ~resolved.threw
    /\ Len(resolved.skills) = 3
    /\ \E k \in 1..3 : Cardinality(SharingBase(Deduplicated, Deduplicated[k].ref)) = 2
    /\ \E k \in 1..3 : Cardinality(SharingBase(Deduplicated, Deduplicated[k].ref)) = 1

----------------------------------------------------------------------------
(* Properties of orphan handling across runs                               *)

\* C17 as stated: over the runs of the command, each given the state the one
\* before saved, a non-dry-run sync deletes a skill's directory as an orphan,
\* and lists it in removed, only if the skill had type conditional in the
\* most recent resolved list that contained it.
C17_ExplicitNeverDeleted ==
    (calls > 0 /\ ~params.dryRun) =>
        /\ \A k \in 1..Len(io.removals) : lastType[io.removals[k].name] = "conditional"
        /\ \A k \in 1..Len(result.removed) : lastType[result.removed[k]] = "conditional"

----------------------------------------------------------------------------
(* Properties of what a sync leaves on disk and in the state               *)

\* C18 as stated: when a non-dry-run call has returned with no errors, in sync
\* or not, every resolved skill has its directory under every agent directory
\* passed to the call.
C18_AllAgentDirs ==
    (Returned /\ ~params.dryRun /\ result.errors = <<>>) =>
        \A k \in 1..Len(params.resolvedSkills), j \in 1..Len(params.agentDirs) :
            Exists(disk, params.agentDirs[j], params.resolvedSkills[k].installName)

\* C20 as stated: when a non-dry-run call has returned, every skill that
\* reached an agent directory (a copy of it was made) is in synced and has an
\* entry in updatedState under its installName, with the source and path of
\* its reference, the commitSha fetchSkill returned, the resolved type and, as
\* agents, the directories it was copied to, in order; for the single global
\* reference a/t, an empty prior state and one agent directory that is
\* synced = <<t>> and the one entry t of type global.
C20_RecordedAsSynced ==
    (Returned /\ ~params.dryRun /\ ~result.alreadyInSync) =>
        LET installed == getProjectState(result.updatedState, params.projectRoot).skills
        IN  /\ \A k \in 1..Len(params.resolvedSkills) :
                  io.outcomes[k].copied # <<>> =>
                      LET skill == params.resolvedSkills[k]
                      IN  /\ skill.installName \in Range(result.synced)
                          /\ skill.installName \in DOMAIN installed
                          /\ installed[skill.installName].source = skill.ref.source
                          /\ installed[skill.installName].path = skill.ref.path
                          /\ installed[skill.installName].commitSha = io.outcomes[k].commitSha
                          /\ installed[skill.installName].type = skill.type
                          /\ installed[skill.installName].agents = io.outcomes[k].copied
            /\ (/\ config = Config(<<RefA>>, <<>>, <<>>)
                /\ params.state = emptyState
                /\ Len(params.agentDirs) = 1
                /\ io.outcomes[1].copied # <<>>)
                  => /\ result.synced = <<DeriveSkillName(RefA).name>>
                     /\ DOMAIN installed = {DeriveSkillName(RefA).name}
                     /\ installed[DeriveSkillName(RefA).name].type = "global"

\* C19 as stated: over the non-dry-run syncs of the project, each given the
\* state the one before saved, once a sync has performed the .gitignore check
\* no later sync reads .gitignore or returns gitignoreSuggestions.
C19_CheckedOnce ==
    (calls > 0 /\ ~params.dryRun /\ io.checked) =>
        /\ io.gitignoreReads = 0
        /\ result.gitignoreSuggestions = <<>>

----------------------------------------------------------------------------
(* Properties of the fetcher                                               *)

\* C15: of the fetches of a call, one for a local reference never clones and
\* returns no commitSha; one for a remote reference that the cache answered
\* (some commit directory of its owner/repo holds the requested path) never
\* clones; a clone happens only for a remote reference the cache did not
\* answer; and once such a clone succeeded the cache answers the reference.
C15_CloneOnlyOnMiss ==
    \A k \in 1..Len(io.outcomes) :
        LET ref == io.fetches[k]
            o == io.outcomes[k]
        IN  /\ ref.source = LOCAL_SOURCE => ~o.cloned /\ o.commitSha = NoSha
            /\ ref.source # LOCAL_SOURCE /\ o.hit => ~o.cloned
            /\ o.cloned => ref.source # LOCAL_SOURCE /\ ~o.hit
            /\ o.cloned /\ ~o.threw => findCachedSkill(ref, cache) # {}

\* A call that cloned one reference and took the next from the cache the first
\* had filled
C15_Witness ==
    /\ Len(io.outcomes) = 2
    /\ io.outcomes[1].cloned /\ ~io.outcomes[1].threw
    /\ io.outcomes[2].hit /\ ~io.outcomes[2].cloned
    /\ io.outcomes[2].path = io.outcomes[1].path

\* The @ref of the sources a commit was cloned for: sha2 is the head of the
\* pinned ref, sha0 and sha1 were cloned for sources without @ref
ClonedForRef(sha) == IF sha = RemoteHead(RefAPinned.source) THEN ParseSource(RefAPinned.source).ref
                     ELSE ParseSource(RefA.source).ref

\* C16 as stated: the directory fetchSkill returns for a remote reference
\* holds a commit that was cloned for a source with the reference's @ref
\* (or without one, if the reference has none), never one cloned and cached
\* for a source that differs in the @ref.
C16_RefIsFetchIdentity ==
    \A k \in 1..Len(io.outcomes) :
        (io.fetches[k].source # LOCAL_SOURCE /\ ~io.outcomes[k].threw) =>
            ClonedForRef(io.outcomes[k].path.sha) = ParseSource(io.fetches[k].source).ref

----------------------------------------------------------------------------
(* Properties of the state store                                           *)

\* The state st with commitSha, type, agents and syncedAt of every installed
\* skill of the project replaced
Rewritten(st, projectRoot, sha, type, agents, at) ==
    IF projectRoot \notin DOMAIN st.projects THEN st
    ELSE [st EXCEPT !.projects[projectRoot].skills =
            [name \in DOMAIN st.projects[projectRoot].skills |->
                [st.projects[projectRoot].skills[name] EXCEPT
                    !.commitSha = sha, !.type = type, !.agents = agents, !.syncedAt = at]]]

\* The condition C13 states for isInSync
SameCountAndEntries(st, projectRoot, resolvedSkills) ==
    LET installed == IF projectRoot \in DOMAIN st.projects
                     THEN st.projects[projectRoot].skills ELSE NoSkills
    IN  /\ Cardinality(DOMAIN installed) = Len(resolvedSkills)
        /\ \A k \in 1..Len(resolvedSkills) :
              /\ resolvedSkills[k].installName \in DOMAIN installed
              /\ installed[resolvedSkills[k].installName].source = resolvedSkills[k].ref.source
              /\ installed[resolvedSkills[k].installName].path = resolvedSkills[k].ref.path

\* C13: for the state and the resolved list of every call, isInSync is true
\* exactly when the project has as many installed skills as there are resolved
\* skills and every resolved skill's installName has an installed entry with
\* equal source and path (a project missing from the state has none); and the
\* result is the same whatever commitSha, type, agents and syncedAt the
\* entries hold.
C13_IsInSync ==
    calls > 0 =>
        /\ isInSync(params.state, params.projectRoot, params.resolvedSkills)
              <=> SameCountAndEntries(params.state, params.projectRoot, params.resolvedSkills)
        /\ \A sha \in {NoSha, "sha1"}, type \in SkillTypes :
              isInSync(Rewritten(params.state, params.projectRoot, sha, type, <<"copilot">>, 1),
                       params.projectRoot, params.resolvedSkills)
                 <=> isInSync(params.state, params.projectRoot, params.resolvedSkills)

\* A call found in sync although a recorded type is not the resolved one
C13_Witness ==
    /\ calls > 0
    /\ params.resolvedSkills # <<>>
    /\ isInSync(params.state, params.projectRoot, params.resolvedSkills)
    /\ \E k \in 1..Len(params.resolvedSkills) :
          params.state.projects[params.projectRoot].skills[params.resolvedSkills[k].installName].type
              # params.resolvedSkills[k].type

----------------------------------------------------------------------------
(* Properties of cleanCache                                                *)

\* The commitShas the installed skills of the state's projects have
ReferencedShas ==
    {sha \in {"sha0", "sha1", "sha2"} :
        \E r \in DOMAIN state.projects : \E n \in DOMAIN state.projects[r].skills :
            state.projects[r].skills[n].commitSha = sha}

\* The entries cleanCache has deleted
Deleted == cleaned.tree0.shas \ cleaned.tree.shas

\* C14, cache reachability: cleanCache deletes exactly the commit directories
\* whose sha no installed skill of any project has as commitSha and keeps the
\* others, returns their number and the sum of their sizes, leaves no repo or
\* owner directory empty and removes no directory that still holds something;
\* without a cache directory it returns 0 and 0 and changes nothing.
C14_CacheReachability ==
    cleaned.done =>
        /\ ~cleaned.tree0.exists =>
              cleaned.removed = 0 /\ cleaned.freedBytes = 0 /\ cleaned.tree = cleaned.tree0
        /\ cleaned.tree0.exists =>
              /\ cleaned.tree.shas \subseteq cleaned.tree0.shas
              /\ Deleted = {d \in cleaned.tree0.shas : d.dir /\ d.sha \notin ReferencedShas}
              /\ cleaned.removed = Cardinality(Deleted)
              /\ cleaned.freedBytes = SizeOf(Deleted)
              /\ cleaned.tree.repos =
                    {r \in cleaned.tree0.repos : \E d \in cleaned.tree.shas : RepoOf(d) = r}
              /\ cleaned.tree.owners =
                    {o \in cleaned.tree0.owners : \E r \in cleaned.tree.repos : r.owner = o}

\* A clean that deleted two directories, kept a referenced one and pruned a
\* repo directory and an owner directory
C14_Witness ==
    /\ cleaned.done
    /\ cleaned.removed = 2
    /\ \E d \in cleaned.tree.shas : d.dir
    /\ cleaned.tree0.repos \ cleaned.tree.repos # {}
    /\ cleaned.tree0.owners \ cleaned.tree.owners # {}

----------------------------------------------------------------------------
(* Properties of deduplicateSkills                                         *)

\* The positions of a list of tagged skills that hold the reference ref
Occurrences(skills, ref) == {k \in 1..Len(skills) : skills[k].ref = ref}

\* C11 as stated, priority law: the result of deduplicateSkills holds exactly
\* one entry for each (source, path) of the list and no other entry, and the
\* entry's type is the highest-priority type among the occurrences of that
\* (source, path), project over global over conditional.
C11_PriorityLaw ==
    dedup.done =>
        /\ \A k \in 1..Len(dedup.skills) :
              Cardinality(Occurrences(dedup.result, dedup.skills[k].ref)) = 1
        /\ \A k \in 1..Len(dedup.result) :
              LET among == Occurrences(dedup.skills, dedup.result[k].ref)
              IN  /\ among # {}
                  /\ \E j \in among : dedup.skills[j].type = dedup.result[k].type
                  /\ \A j \in among :
                        typePriority(dedup.skills[j].type) <= typePriority(dedup.result[k].type)

\* The list skills in the order the permutation perm of its positions gives
Permuted(skills, perm) == [i \in 1..Len(skills) |-> skills[perm[i]]]

\* C12 as stated, order independence: for every permutation of the list,
\* deduplicateSkills followed by resolveInstallNames returns the same set of
\* resolved skills (reference, type and install name).
C12_OrderIndependence ==
    dedup.done =>
        \A perm \in Permutations(1..Len(dedup.skills)) :
            LET again == resolveInstallNames(deduplicateSkills(Permuted(dedup.skills, perm)))
            IN  /\ again.threw = dedup.named.threw
                /\ Range(again.skills) = Range(dedup.named.skills)

----------------------------------------------------------------------------
(* Properties of cloneAndExtract                                           *)

\* C21 as stated, temporary clone cleanup: when a call of cloneAndExtract has
\* returned or thrown, its temporary directory does not exist and is not in
\* pendingCleanups; whenever the directory exists while the process runs it
\* is in pendingCleanups; and after SIGINT or exit it does not exist.
C21_TempCleanup ==
    /\ clone.pc \in {"returned", "thrown"} => ~clone.temp /\ ~clone.pending
    /\ (clone.alive /\ clone.temp) => clone.pending
    /\ ~clone.alive => ~clone.temp


\* C22: the default command ends with exit code 1 exactly when the sync result
\* has at least one error and no synced skill, or when a fatal error is thrown
\* before the sync; in every other case the exit code is 0.
CommandEnded == pc \in {"fatal", "thrown", "noAgents"} \/ (pc = "idle" /\ calls > 0)

HasResult == pc = "idle" /\ calls > 0

C22_ExitCodeAsStated ==
    CommandEnded =>
        (exitCode = 1 <=>
            \/ HasResult /\ result.errors # <<>> /\ result.synced = <<>>
            \/ pc = "fatal")

\* C22 with an error thrown during the sync counted as fatal: exit code 1
\* exactly when the returned result has an error and no synced skill, or when
\* an error is thrown before or during the sync; 0 in every other case.
C22_ExitCode ==
    CommandEnded =>
        /\ exitCode \in {0, 1}
        /\ exitCode = 1 <=>
              \/ HasResult /\ result.errors # <<>> /\ result.synced = <<>>
              \/ pc \in {"fatal", "thrown"}
        /\ HasResult /\ result.synced # <<>> => exitCode = 0
        /\ HasResult /\ result.alreadyInSync => exitCode = 0
        /\ pc = "noAgents" => exitCode = 0

\* A run that reported an error besides a synced skill ended with exit code 0
C22_Witness ==
    /\ HasResult
    /\ result.errors # <<>>
    /\ result.synced # <<>>
    /\ exitCode = 0


\* C23: from an empty project state and agent targets without skill
\* directories, with a fixed resolved list of distinct install names and
\* finitely many fetch and copy failures, repeated non-dry-run syncs eventually
\* reach a state where isInSync holds and every resolved skill has an entry.
Converged ==
    /\ resolved.done
    /\ isInSync(state, ProjectRoot, resolved.skills)
    /\ \A k \in 1..Len(resolved.skills) :
          resolved.skills[k].installName \in DOMAIN getProjectState(state, ProjectRoot).skills

C23_Convergence == <>Converged


\* C24: over non-dry-run syncs with the state threaded through, a directory
\* the user placed in an agent target before the tool ever copied to that
\* destination is never replaced or deleted, also when the install name was
\* synced to another agent target before or later is a conditional orphan.
UserPlaced(d) ==
    UNION {{[agent |-> agent, name |-> name] :
               name \in {n \in DOMAIN d[agent] : d[agent][n] = UserContent}} :
           agent \in AgentTypes}

C24_NoClobbering ==
    (calls > 0 /\ ~params.dryRun) =>
        \A u \in UserPlaced(io.disk0) :
            Exists(disk, u.agent, u.name) /\ disk[u.agent][u.name] = UserContent


\* C25: after non-dry-run syncs (installs through a clone, re-syncs through a
\* cache hit), cleanCache with the resulting state never deletes the cache
\* directory from which a remote skill recorded as installed was copied.
CacheTreeOf(c) == Tree({ShaDir(e.owner, e.repo, e.sha, 1) : e \in c}, FALSE, FALSE)

KeptBy(st, c) == cleanCache(st, CacheTreeOf(c)).tree.shas

C25_InstalledCacheKept ==
    (pc = "idle" /\ calls > 0 /\ ~params.dryRun) =>
        LET installed == getProjectState(state, ProjectRoot).skills
        IN  \A name \in DOMAIN installed :
                installed[name].source # LOCAL_SOURCE =>
                    \A agent \in Range(installed[name].agents) :
                        (Exists(disk, agent, name) /\ disk[agent][name].kind = "skill") =>
                            \E d \in KeptBy(state, cache) :
                                /\ d.owner = disk[agent][name].from.owner
                                /\ d.repo = disk[agent][name].from.repo
                                /\ d.sha = disk[agent][name].from.sha


\* C26: if before a non-dry-run syncSkills call every skill entry of the
\* project has a directory in each agent target of its agents field, then
\* after the call returns, with or without per-skill errors, every skill entry
\* in updatedState again has a directory in each agent target of its agents
\* field.
DirsOfEntries(st, d) ==
    LET installed == getProjectState(st, ProjectRoot).skills
    IN  \A name \in DOMAIN installed :
            \A agent \in Range(installed[name].agents) : Exists(d, agent, name)

C26_StateMatchesDisk ==
    (Returned /\ ~params.dryRun /\ DirsOfEntries(params.state, io.disk0)) =>
        DirsOfEntries(result.updatedState, disk)


\* C27: a non-dry-run syncSkills call with at least one agent target that
\* does not take the fast path returns a state whose skill keys for the
\* project are exactly the install names in synced, the failed install names
\* that had a prior entry, and the global and project orphans; every prior
\* entry is among them or is a conditional orphan; lastSync is the time of the
\* run.
FailedNames == {params.resolvedSkills[k].installName : k \in {j \in 1..Len(io.outcomes) : Failed(j)}}

C27_KeySet ==
    (Returned /\ ~params.dryRun /\ ~result.alreadyInSync /\ params.agentDirs # <<>>) =>
        /\ DOMAIN UpdatedInstalled =
              Range(result.synced) \cup (FailedNames \cap DOMAIN PriorInstalled)
                  \cup ExplicitOrphans
        /\ \A name \in DOMAIN PriorInstalled :
              \/ name \in DOMAIN UpdatedInstalled
              \/ name \in ConditionalOrphans
        /\ result.updatedState.lastSync = clock

\* A run that synced a skill, preserved the entry of a failed one or carried
\* an orphan forward, and dropped a conditional orphan or failed a new skill
C27_Witness ==
    /\ Returned /\ ~params.dryRun /\ ~result.alreadyInSync
    /\ result.synced # <<>>
    /\ (FailedNames \cap DOMAIN PriorInstalled) \cup ExplicitOrphans # {}
    /\ DOMAIN PriorInstalled \ DOMAIN UpdatedInstalled # {}


\* C28: syncSkills for the project changes no other project: every other
\* project of the input state is in updatedState with the same value and no
\* project is added besides the project itself, the version is unchanged, and
\* the input state is left as it was, in dry runs and in non-dry runs.
C28_OtherProjectsUntouched ==
    /\ Returned =>
          /\ DOMAIN result.updatedState.projects \ {params.projectRoot}
                = DOMAIN params.state.projects \ {params.projectRoot}
          /\ \A q \in DOMAIN params.state.projects \ {params.projectRoot} :
                result.updatedState.projects[q] = params.state.projects[q]
          /\ result.updatedState.version = params.state.version
    /\ pc \in {"skills", "orphans", "gitignore", "build", "done"} => state = params.state

\* A non-dry-run call that synced a skill for the project while the state held
\* another project
C28_Witness ==
    /\ Returned
    /\ ~params.dryRun
    /\ result.synced # <<>>
    /\ OtherRoot \in DOMAIN params.state.projects
    /\ result.updatedState # params.state


\* C29: for an install name with a dot in it, the name line of the first
\* front-matter block of SKILL.md is set to the install name and every other
\* line, of the front matter and of the body, stays as it was; a file without
\* front matter or without a name line is left unchanged; for an install name
\* without a dot nothing is rewritten.
RECURSIVE SplitLines(_)
SplitLines(s) ==
    IF s = <<>> THEN <<>>
    ELSE LET i == IndexOf(s, "\n")
         IN  IF i = 0 THEN <<s>>
             ELSE <<SubSeq(s, 1, i - 1)>> \o SplitLines(SubSeq(s, i + 1, Len(s)))

\* The lines of the first front-matter block that are name lines
NameLinesOf(lines) ==
    LET closing == {j \in 2..Len(lines) : lines[j] = Dashes}
    IN  IF lines # <<>> /\ lines[1] = Dashes /\ closing # {}
        THEN {i \in 2..(Least(closing) - 1) : StartsWith(lines[i], NameKey)}
        ELSE {}

\* The line is name:, spaces, and the name
IsNameLineOf(line, name) ==
    /\ StartsWith(line, NameKey)
    /\ Len(line) >= Len(NameKey) + Len(name)
    /\ SubSeq(line, Len(line) - Len(name) + 1, Len(line)) = name
    /\ \A j \in (Len(NameKey) + 1)..(Len(line) - Len(name)) : line[j] = " "

C29_NameRewrite ==
    manifest.done =>
        LET before == SplitLines(manifest.content)
            after == SplitLines(manifest.written)
            nameLines == NameLinesOf(before)
        IN  IF Includes(manifest.installName, <<".">>) /\ nameLines # {}
            THEN /\ Len(after) = Len(before)
                 /\ \A j \in 1..Len(before) :
                       IF j = Least(nameLines)
                       THEN IsNameLineOf(after[j], manifest.installName)
                       ELSE after[j] = before[j]
            ELSE manifest.written = manifest.content


\* C30: before deduplication resolveSkills has collected every global
\* reference, every reference under a projects key whose normalized path is
\* the normalized project root and none under another key, and every
\* reference of each conditional rule whose glob matches a project file
\* outside the excluded directories, the rule counted once; nothing else is
\* collected, and a configuration without references resolves to an empty
\* list.
RefCount(refs, ref) == Cardinality({k \in 1..Len(refs) : refs[k] = ref})

\* How often ref stands in the entries that satisfy Applies
CountUnder(entries, ref, Applies(_)) ==
    Cardinality({p \in (1..Len(entries)) \X (1..MaxCollected) :
                    /\ Applies(entries[p[1]])
                    /\ p[2] <= Len(entries[p[1]].skills)
                    /\ entries[p[1]].skills[p[2]] = ref})

KeyIsRoot(entry) == normalizePath(entry.key) = normalizePath(ProjectRoot)

RuleMatches(rule) ==
    \E f \in ProjectFiles : f.ext = rule.when /\ f.dir \notin EXCLUDED_DIRS

Expected(cfg, ref, type) ==
    CASE type = "global" -> RefCount(cfg.global, ref)
      [] type = "project" -> CountUnder(cfg.projects, ref, KeyIsRoot)
      [] type = "conditional" -> CountUnder(cfg.conditional, ref, RuleMatches)

C30_Collected ==
    LET tagged == CollectTagged(config, ProjectRoot, ProjectFiles)
    IN  /\ \A ref \in CollectRefs, type \in SkillTypes :
              RefCount(tagged, [ref |-> ref, type |-> type]) = Expected(config, ref, type)
        /\ \A k \in 1..Len(tagged) : tagged[k].ref \in CollectRefs /\ tagged[k].type \in SkillTypes
        /\ (resolved.done /\ ConfigSize(config) = 0) => (~resolved.threw /\ resolved.skills = <<>>)
        /\ (resolved.done /\ ~resolved.threw) =>
              {resolved.skills[k].ref : k \in 1..Len(resolved.skills)}
                  = {tagged[k].ref : k \in 1..Len(tagged)}

\* A resolved configuration with a rule that matches two files, a rule that
\* matches only inside an excluded directory, and a project key that is the
\* root with a trailing slash
C30_Witness ==
    /\ resolved.done
    /\ Len(resolved.skills) = 1
    /\ \E j \in 1..Len(config.conditional) : config.conditional[j].when = "tf"
    /\ \E j \in 1..Len(config.conditional) : config.conditional[j].when = "py"
    /\ \E j \in 1..Len(config.projects) : config.projects[j].key = ProjectRoot \o <<"/">>

=============================================================================
